---- MODULE Spec2Model ----
(***************************************************************************)
(* Leave-management approval engine (dapphari007/LMS).                     *)
(*                                                                         *)
(* The model follows the request handlers of the leave-request controller  *)
(* (createLeaveRequest, updateLeaveRequestStatus, cancelLeaveRequest,      *)
(* deleteLeaveRequest, approveDeleteLeaveRequest, rejectDeleteLeaveRequest)*)
(* over three tables: leave requests, leave balances and approval          *)
(* workflows.  Each handler is one atomic action; its HTTP status code is  *)
(* recorded in the variable response.                                      *)
(*                                                                         *)
(* Units: numberOfDays, balance, used and carryForward are counted in      *)
(* half days (a full day is 2), so the half-day value 0.5 is the integer 1.*)
(* Dates are day numbers; every modelled day is a business day.            *)
(***************************************************************************)
EXTENDS Integers, Sequences, FiniteSets, TLC

(***************************************************************************)
(* Bounds of the model.                                                    *)
(***************************************************************************)
MaxDay == 2           \* dates are 1..MaxDay
MaxToday == 2         \* the clock advances up to this day
MaxHistory == 2       \* non-final approvals a request's approvalHistory may record

Days == 1..MaxDay
RequestIds == {"r1", "r2"}   \* the ids a new row can get

\* The calendar: day 1 is the last day of year 1, later days belong to year 2.
YearOf(d) == IF d <= 1 THEN 1 ELSE 2

(***************************************************************************)
(* LeaveRequestStatus                                                      *)
(***************************************************************************)
PENDING == "pending"
APPROVED == "approved"
REJECTED == "rejected"
CANCELLED == "cancelled"
PARTIALLY_APPROVED == "partially_approved"
PENDING_DELETION == "pending_deletion"

LeaveRequestStatus ==
  {PENDING, APPROVED, REJECTED, CANCELLED, PARTIALLY_APPROVED, PENDING_DELETION}

FULL_DAY == "full_day"
LeaveRequestType == {FULL_DAY, "first_half", "second_half"}

(***************************************************************************)
(* The user table.  role is the UserRole enum value, roleId the reference  *)
(* into the roles table; workflow levels list role references, and the     *)
(* controller compares them with role at creation and with roleId at       *)
(* approval.  Role references are written as the role names.               *)
(***************************************************************************)
Users == {"emp", "tl", "mgr", "hr"}

UserTable ==
  [ emp |-> [role |-> "employee",  roleId |-> "employee",  managerId |-> "mgr", isActive |-> TRUE],
    tl  |-> [role |-> "team_lead", roleId |-> "team_lead", managerId |-> "mgr", isActive |-> TRUE],
    mgr |-> [role |-> "manager",   roleId |-> "manager",   managerId |-> "hr",  isActive |-> TRUE],
    hr  |-> [role |-> "hr",        roleId |-> "hr",        managerId |-> "",    isActive |-> TRUE] ]

Requesters == {"emp", "tl"}
LeaveTypes == {"annual"}

VARIABLES
  leaveRequests,      \* leave_requests table: id -> row, for the rows that exist
  leaveBalances,      \* leave_balances table: <<userId, leaveTypeId, year>> -> record
  approvalWorkflows,  \* approval_workflows table: id -> workflow
  today,              \* the current date
  allocated,          \* the row ids handed out so far (an id is never used again)
  response,           \* the last handler call and the status code it returned
  inFlight            \* the calls in progress with their arguments and what they
                      \* have read so far; <<>> when no call is followed step by step

vars == <<leaveRequests, leaveBalances, approvalWorkflows, today, allocated, response, inFlight>>

getCurrentYear(now) == YearOf(now)

(***************************************************************************)
(* Helpers on sequences.                                                   *)
(***************************************************************************)
Range(s) == {s[i] : i \in 1..Len(s)}

SelectFirst(s, T(_)) ==
  LET idx == {i \in 1..Len(s) : T(s[i])}
  IN IF idx = {} THEN <<>> ELSE <<s[CHOOSE i \in idx : \A j \in idx : i <= j]>>

RECURSIVE SortByLevel(_)
InsertByLevel(x, s) ==
  LET k == Cardinality({i \in 1..Len(s) : s[i].level <= x.level})
  IN SubSeq(s, 1, k) \o <<x>> \o SubSeq(s, k + 1, Len(s))
\* [...approvalLevels].sort((a, b) => a.level - b.level)
SortByLevel(s) ==
  IF s = <<>> THEN <<>>
  ELSE InsertByLevel(s[Len(s)], SortByLevel(SubSeq(s, 1, Len(s) - 1)))

RECURSIVE SortNumbers(_)
InsertNumber(x, s) ==
  LET k == Cardinality({i \in 1..Len(s) : s[i] <= x})
  IN SubSeq(s, 1, k) \o <<x>> \o SubSeq(s, k + 1, Len(s))
\* Array.prototype.sort() on level numbers (single digits: text order = numeric order)
SortNumbers(s) ==
  IF s = <<>> THEN <<>>
  ELSE InsertNumber(s[Len(s)], SortNumbers(SubSeq(s, 1, Len(s) - 1)))

LevelNumbers(levels) == [i \in 1..Len(levels) |-> levels[i].level]

(***************************************************************************)
(* Workflow catalog look-ups.                                              *)
(***************************************************************************)
RECURSIVE SeqOfSet(_, _)
\* the workflows of set ids as a sequence, ordered by minDays DESC
SeqOfSet(wfs, ids) ==
  IF ids = {} THEN <<>>
  ELSE LET top == CHOOSE i \in ids : \A j \in ids : wfs[i].minDays >= wfs[j].minDays
       IN <<wfs[top]>> \o SeqOfSet(wfs, ids \ {top})

\* approvalWorkflowRepository.find({ where: { isActive: true }, order: { minDays: "DESC" } })
ActiveWorkflowsDesc(wfs) ==
  SeqOfSet(wfs, {i \in DOMAIN wfs : wfs[i].isActive})

\* approvalWorkflows.find(w => numberOfDays >= w.minDays && numberOfDays <= w.maxDays)
FindWorkflowByDuration(wfs, numberOfDays) ==
  LET Covers(w) == numberOfDays >= w.minDays /\ numberOfDays <= w.maxDays
  IN SelectFirst(ActiveWorkflowsDesc(wfs), Covers)

\* the workflow whose level numbers equal metadata.requiredApprovalLevels
FindWorkflowByLevels(wfs, requiredApprovalLevels) ==
  LET Same(w) == SortNumbers(LevelNumbers(w.approvalLevels)) = SortNumbers(requiredApprovalLevels)
  IN SelectFirst(ActiveWorkflowsDesc(wfs), Same)

\* leaveRequestService.getApprovalWorkflow(numberOfDays): the active workflow
\* whose [minDays, maxDays] contains numberOfDays, or none (the call throws)
getApprovalWorkflow(wfs, numberOfDays) ==
  LET ids == {i \in DOMAIN wfs : /\ wfs[i].isActive
                                 /\ wfs[i].minDays <= numberOfDays
                                 /\ wfs[i].maxDays >= numberOfDays}
  IN IF ids = {} THEN <<>> ELSE <<wfs[CHOOSE i \in ids : TRUE]>>

\* approverService.findApproversByRoleIds(roleIds, department): the active
\* users holding one of the roles
findApproversByRoleIds(roleIds) ==
  {u \in Users : UserTable[u].isActive /\ UserTable[u].roleId \in roleIds}

(***************************************************************************)
(* Date-range queries on the leave_requests table.                         *)
(***************************************************************************)
DatesOverlap(r, startDate, endDate) ==
  r.startDate <= endDate /\ r.endDate >= startDate

\* a variant that looks at approved requests only; C17 tells it from
\* OverlappingOnCreate
OverlappingApprovedOnCreate(reqs, userId, startDate, endDate) ==
  {i \in DOMAIN reqs : /\ reqs[i].userId = userId
                       /\ reqs[i].status = APPROVED
                       /\ DatesOverlap(reqs[i], startDate, endDate)}

\* createLeaveRequest: pending or approved requests of the user that share a day
OverlappingOnCreate(reqs, userId, startDate, endDate) ==
  {i \in DOMAIN reqs : /\ reqs[i].userId = userId
                       /\ reqs[i].status \in {PENDING, APPROVED}
                       /\ DatesOverlap(reqs[i], startDate, endDate)}

\* updateLeaveRequestStatus: approved requests of the user, other than id,
\* that share a day with request id
OverlappingApproved(reqs, id) ==
  {i \in DOMAIN reqs : /\ i # id
                       /\ reqs[i].userId = reqs[id].userId
                       /\ reqs[i].status = APPROVED
                       /\ DatesOverlap(reqs[i], reqs[id].startDate, reqs[id].endDate)}

BalanceKey(r, year) == <<r.userId, r.leaveTypeId, year>>

Max(a, b) == IF a >= b THEN a ELSE b

(***************************************************************************)
(* The handlers, as functions from the tables to a result                  *)
(* [code, reqs, bals].                                                     *)
(***************************************************************************)
Result(code, reqs, bals) == [code |-> code, reqs |-> reqs, bals |-> bals]

\* calculateBusinessDays / calculateHalfDayValue, in half days
NumberOfDays(startDate, endDate, requestType) ==
  IF requestType # FULL_DAY THEN 1 ELSE 2 * (endDate - startDate + 1)

\* requiredLevels: the sorted level numbers minus the levels listing the requester's role
RequiredLevels(levels, role) ==
  LET sortedLevels == SortByLevel(levels)
      Keep(l) == ~(role \in l.roleIds)
  IN LevelNumbers(SelectSeq(sortedLevels, Keep))

\* pendingDays: the days of the user's pending requests of the leave type
PendingDays(reqs, userId, leaveTypeId) ==
  LET P == {i \in DOMAIN reqs : /\ reqs[i].userId = userId
                                /\ reqs[i].leaveTypeId = leaveTypeId
                                /\ reqs[i].status = PENDING}
      RECURSIVE Sum(_)
      Sum(S) == IF S = {} THEN 0
                ELSE LET x == CHOOSE y \in S : TRUE
                     IN reqs[x].numberOfDays + Sum(S \ {x})
  IN Sum(P)

\* a variant that forgets the days already asked for; C18 tells it from
\* AvailableBalance
AvailableBalanceWithoutPending(leaveBalance, pendingDays) ==
  leaveBalance.balance + leaveBalance.carryForward - leaveBalance.used

\* availableBalance
AvailableBalance(leaveBalance, pendingDays) ==
  leaveBalance.balance + leaveBalance.carryForward - leaveBalance.used - pendingDays

\* id is the generated primary key of the new row
createLeaveRequest(reqs, bals, wfs, now, id, userId, leaveTypeId, startDate, endDate, requestType) ==
  LET numberOfDays == NumberOfDays(startDate, endDate, requestType)
      key == <<userId, leaveTypeId, getCurrentYear(now)>>
      pendingDays == PendingDays(reqs, userId, leaveTypeId)
      wf == getApprovalWorkflow(wfs, numberOfDays)
  IN
  IF startDate > endDate THEN Result(400, reqs, bals)
  ELSE IF startDate < now THEN Result(400, reqs, bals)
  ELSE IF requestType # FULL_DAY /\ startDate # endDate THEN Result(400, reqs, bals)
  ELSE IF OverlappingOnCreate(reqs, userId, startDate, endDate) # {} THEN Result(409, reqs, bals)
  ELSE IF key \notin DOMAIN bals THEN Result(404, reqs, bals)
  ELSE IF numberOfDays > AvailableBalance(bals[key], pendingDays)
       THEN Result(400, reqs, bals)
  ELSE IF wf = <<>> THEN Result(400, reqs, bals)
  ELSE
    LET requiredLevels == RequiredLevels(wf[1].approvalLevels, UserTable[userId].role)
        row == [ userId |-> userId, leaveTypeId |-> leaveTypeId,
                 startDate |-> startDate, endDate |-> endDate,
                 numberOfDays |-> numberOfDays, status |-> PENDING,
                 metadata |-> [ requestUserRole |-> UserTable[userId].role,
                                isFullyApproved |-> FALSE,
                                approvalHistory |-> <<>>,
                                currentApprovalLevel |-> 0,
                                requiredApprovalLevels |-> requiredLevels,
                                workflowId |-> wf[1].id,
                                originalStatus |-> "",
                                deletionRequestedBy |-> "",
                                deletionRejectedBy |-> "" ] ]
        saved == [i \in DOMAIN reqs \cup {id} |-> IF i = id THEN row ELSE reqs[i]]
        \* the workflow is read again by id to find whom to notify
        levelDefinition ==
          IF requiredLevels = <<>> \/ wf[1].id \notin DOMAIN wfs THEN <<>>
          ELSE LET IsFirst(l) == l.level = requiredLevels[1]
               IN SelectFirst(wfs[wf[1].id].approvalLevels, IsFirst)
        approversToNotify ==
          IF levelDefinition = <<>> THEN {} ELSE findApproversByRoleIds(levelDefinition[1].roleIds)
    IN IF requiredLevels # <<>> /\ approversToNotify = {}
       THEN Result(400, saved, bals)   \* the row was saved before the approvers were looked up
       ELSE Result(201, saved, bals)

(***************************************************************************)
(* updateLeaveRequestStatus                                                *)
(***************************************************************************)
\* an approvalHistory entry; of {level, approverId, approverName, approvedAt, comments}
\* the level is kept
HistoryEntry(level, approverId) == [level |-> level]

\* the workflow the approval is evaluated against (none: <<>>)
ApplicableWorkflow(wfs, lr) ==
  IF lr.status = PARTIALLY_APPROVED
  THEN FindWorkflowByLevels(wfs, lr.metadata.requiredApprovalLevels)
  ELSE FindWorkflowByDuration(wfs, lr.numberOfDays)

\* does the approver hold a role of the level (roleIds, or the legacy roles list)
MatchesLevel(level, approverId) ==
  IF level.roleIds # {}
  THEN UserTable[approverId].roleId # "" /\ UserTable[approverId].roleId \in level.roleIds
  ELSE UserTable[approverId].role \in level.roles

\* currentApproverLevel: 0 stands for null
CurrentApproverLevel(sortedLevels, lr, approverId) ==
  IF lr.status = PARTIALLY_APPROVED
  THEN LET nextLevel == lr.metadata.currentApprovalLevel + 1
           IsNext(l) == l.level = nextLevel
           nextLevelDefinition == SelectFirst(sortedLevels, IsNext)
       IN IF nextLevelDefinition # <<>> /\ MatchesLevel(nextLevelDefinition[1], approverId)
          THEN nextLevel ELSE 0
  ELSE LET Matches(l) == MatchesLevel(l, approverId)
           found == SelectFirst(sortedLevels, Matches)
       IN IF found = <<>> THEN 0 ELSE found[1].level

\* the request row after a non-final approval at currentApproverLevel
PartiallyApprove(lr, sortedLevels, currentApproverLevel, approverId) ==
  [lr EXCEPT !.status = PARTIALLY_APPROVED,
             !.metadata.currentApprovalLevel = currentApproverLevel,
             !.metadata.requiredApprovalLevels = LevelNumbers(sortedLevels),
             !.metadata.approvalHistory = Append(@, HistoryEntry(currentApproverLevel, approverId))]

\* the history entry pushed when the highest level approves
PushFinalLevel(lr, currentApproverLevel, approverId) ==
  [lr EXCEPT !.metadata.approvalHistory = Append(@, HistoryEntry(currentApproverLevel, approverId)),
             !.metadata.isFullyApproved = TRUE]

\* a variant that logs an approval-history entry for every status, not only
\* for approved; C10 tells it from AssignStatus
AssignStatusLogged(lr, normalizedStatus, approverId) ==
  [lr EXCEPT !.status = normalizedStatus,
             !.metadata.approvalHistory =
                Append(@, HistoryEntry(IF lr.metadata.currentApprovalLevel # 0
                                       THEN lr.metadata.currentApprovalLevel + 1 ELSE 1,
                                       approverId)),
             !.metadata.isFullyApproved = (normalizedStatus = APPROVED) \/ @]

\* "Update leave request status" down to the save of the row
AssignStatus(lr, normalizedStatus, approverId) ==
  LET withStatus == [lr EXCEPT !.status = normalizedStatus]
  IN IF normalizedStatus = APPROVED
     THEN [withStatus EXCEPT
             !.metadata.approvalHistory =
                Append(@, HistoryEntry(IF lr.metadata.currentApprovalLevel # 0
                                       THEN lr.metadata.currentApprovalLevel + 1 ELSE 1,
                                       approverId)),
             !.metadata.isFullyApproved = TRUE]
     ELSE withStatus

\* a variant that counts the days of an approval twice; C2 tells it from AddUsed
AddUsedTwice(bals, lr, now) ==
  LET key == BalanceKey(lr, getCurrentYear(now))
  IN IF key \in DOMAIN bals
     THEN [bals EXCEPT ![key].used = @ + 2 * lr.numberOfDays]
     ELSE bals

\* "Update leave balance if approved": used of the current year's record grows
AddUsed(bals, lr, now) ==
  LET key == BalanceKey(lr, getCurrentYear(now))
  IN IF key \in DOMAIN bals
     THEN [bals EXCEPT ![key].used = @ + lr.numberOfDays]
     ELSE bals

\* the tail of the handler, from "Update leave request status" on
FinishUpdate(reqs, bals, now, id, lr, normalizedStatus, approverId) ==
  LET saved == [reqs EXCEPT ![id] = AssignStatus(lr, normalizedStatus, approverId)]
  IN IF normalizedStatus = APPROVED
     THEN IF OverlappingApproved(saved, id) # {}
          THEN Result(409, saved, bals)
          ELSE Result(200, saved, AddUsed(bals, saved[id], now))
     ELSE Result(200, saved, bals)

\* a variant that refuses decisions on approved requests only; C13 tells it
\* from NotOpenForDecision
NotOpenForDecisionApprovedOnly(lr, normalizedStatus) ==
  /\ lr.status = APPROVED
  /\ normalizedStatus # CANCELLED

\* "Check if leave request is pending or partially approved"
NotOpenForDecision(lr, normalizedStatus) ==
  /\ lr.status # PENDING
  /\ lr.status # PARTIALLY_APPROVED
  /\ normalizedStatus # CANCELLED

\* isAuthorized is the answer of approverService.isApproverAuthorized(approverId, userId)
updateLeaveRequestStatus(reqs, bals, wfs, now, id, approverId, normalizedStatus, isAuthorized) ==
  IF id \notin DOMAIN reqs THEN Result(404, reqs, bals)
  ELSE
  LET lr == reqs[id]
      isSelfCancellation == lr.userId = approverId /\ normalizedStatus = CANCELLED
      applicableWorkflow == ApplicableWorkflow(wfs, lr)
  IN
  IF lr.status = normalizedStatus THEN Result(400, reqs, bals)
  ELSE IF NotOpenForDecision(lr, normalizedStatus) THEN Result(400, reqs, bals)
  ELSE IF ~isAuthorized /\ ~isSelfCancellation THEN Result(403, reqs, bals)
  ELSE IF normalizedStatus = APPROVED /\ applicableWorkflow # <<>>
  THEN
    LET sortedLevels == SortByLevel(applicableWorkflow[1].approvalLevels)
        currentApproverLevel == CurrentApproverLevel(sortedLevels, lr, approverId)
    IN
    IF currentApproverLevel = 0 THEN Result(403, reqs, bals)
    ELSE IF sortedLevels = <<>> THEN Result(500, reqs, bals)
    ELSE IF currentApproverLevel < sortedLevels[Len(sortedLevels)].level
    THEN IF OverlappingApproved(reqs, id) # {} THEN Result(409, reqs, bals)
         ELSE Result(200,
                     [reqs EXCEPT ![id] = PartiallyApprove(lr, sortedLevels, currentApproverLevel, approverId)],
                     bals)
    ELSE FinishUpdate(reqs, bals, now, id, PushFinalLevel(lr, currentApproverLevel, approverId),
                      normalizedStatus, approverId)
  ELSE FinishUpdate(reqs, bals, now, id, lr, normalizedStatus, approverId)

(***************************************************************************)
(* cancelLeaveRequest                                                      *)
(***************************************************************************)
\* a variant that stops the subtraction at 0, as the deletion handlers do; C7
\* tells it from cancelLeaveRequest
cancelLeaveRequestClamped(reqs, bals, now, id, userId) ==
  IF id \notin DOMAIN reqs THEN Result(404, reqs, bals)
  ELSE
  LET lr == reqs[id]
      key == BalanceKey(lr, getCurrentYear(now))
      cancelled == [reqs EXCEPT ![id].status = CANCELLED]
  IN
  IF lr.userId # userId THEN Result(403, reqs, bals)
  ELSE IF lr.status = CANCELLED THEN Result(400, reqs, bals)
  ELSE IF lr.status = APPROVED
  THEN IF lr.startDate < now THEN Result(400, reqs, bals)
       ELSE IF key \in DOMAIN bals
       THEN Result(200, cancelled, [bals EXCEPT ![key].used = Max(@ - lr.numberOfDays, 0)])
       ELSE Result(200, cancelled, bals)
  ELSE Result(200, cancelled, bals)

cancelLeaveRequest(reqs, bals, now, id, userId) ==
  IF id \notin DOMAIN reqs THEN Result(404, reqs, bals)
  ELSE
  LET lr == reqs[id]
      key == BalanceKey(lr, getCurrentYear(now))
      cancelled == [reqs EXCEPT ![id].status = CANCELLED]
  IN
  IF lr.userId # userId THEN Result(403, reqs, bals)
  ELSE IF lr.status = CANCELLED THEN Result(400, reqs, bals)
  ELSE IF lr.status = APPROVED
  THEN IF lr.startDate < now THEN Result(400, reqs, bals)
       ELSE IF key \in DOMAIN bals
       THEN Result(200, cancelled, [bals EXCEPT ![key].used = @ - lr.numberOfDays])
       ELSE Result(200, cancelled, bals)
  ELSE Result(200, cancelled, bals)

(***************************************************************************)
(* The deletion workflow.                                                  *)
(***************************************************************************)
IsAdminOrHR(role) == role = "super_admin" \/ role = "hr"

\* a variant that lets the owner decide as well; C24 tells it from
\* MayDecideDeletion
MayDecideDeletionOrOwner(approverId, userId) ==
  \/ UserTable[userId].managerId = approverId
  \/ IsAdminOrHR(UserTable[approverId].role)
  \/ approverId = userId

\* may approverId decide on the deletion of a request of userId
MayDecideDeletion(approverId, userId) ==
  UserTable[userId].managerId = approverId \/ IsAdminOrHR(UserTable[approverId].role)

\* a variant without "Ensure used days doesn't go below 0"; C8 tells it from
\* RevertUsed
RevertUsedUnclamped(bals, lr) ==
  LET key == BalanceKey(lr, YearOf(lr.startDate))
  IN IF key \in DOMAIN bals
     THEN [bals EXCEPT ![key].used = @ - lr.numberOfDays]
     ELSE bals

\* "Revert the used days" on the record of the request's start-date year
RevertUsed(bals, lr) ==
  LET key == BalanceKey(lr, YearOf(lr.startDate))
  IN IF key \in DOMAIN bals
     THEN [bals EXCEPT ![key].used = Max(@ - lr.numberOfDays, 0)]
     ELSE bals

RemoveRow(reqs, id) == [i \in DOMAIN reqs \ {id} |-> reqs[i]]

rejectDeleteLeaveRequest(reqs, bals, id, approverId) ==
  IF id \notin DOMAIN reqs THEN Result(404, reqs, bals)
  ELSE
  LET lr == reqs[id]
  IN
  IF lr.status # PENDING_DELETION THEN Result(400, reqs, bals)
  ELSE IF ~MayDecideDeletion(approverId, lr.userId) THEN Result(403, reqs, bals)
  ELSE Result(200,
              [reqs EXCEPT ![id].status = IF lr.metadata.originalStatus # ""
                                           THEN lr.metadata.originalStatus ELSE APPROVED,
                           ![id].metadata.deletionRejectedBy = approverId],
              bals)

approveDeleteLeaveRequest(reqs, bals, id, approverId) ==
  IF id \notin DOMAIN reqs THEN Result(404, reqs, bals)
  ELSE
  LET lr == reqs[id]
  IN
  IF lr.status # PENDING_DELETION THEN Result(400, reqs, bals)
  ELSE IF ~MayDecideDeletion(approverId, lr.userId) THEN Result(403, reqs, bals)
  ELSE IF lr.metadata.originalStatus \in {APPROVED, PARTIALLY_APPROVED}
  THEN Result(200, RemoveRow(reqs, id), RevertUsed(bals, lr))
  ELSE Result(200, RemoveRow(reqs, id), bals)

\* a variant that does not keep the status the request had; C22 tells it
\* from RequestDeletion
RequestDeletionWithoutOriginal(lr, userId) ==
  [lr EXCEPT !.status = PENDING_DELETION,
             !.metadata.deletionRequestedBy = userId]

\* "Mark the leave request as pending deletion approval"
RequestDeletion(lr, userId) ==
  [lr EXCEPT !.status = PENDING_DELETION,
             !.metadata.deletionRequestedBy = userId,
             !.metadata.originalStatus = lr.status]

\* userRole is the role in the caller's credentials
deleteLeaveRequest(reqs, bals, wfs, id, userId, userRole) ==
  IF id \notin DOMAIN reqs THEN Result(404, reqs, bals)
  ELSE
  LET lr == reqs[id]
      isOwner == lr.userId = userId
      isAdminOrHR == IsAdminOrHR(userRole)
      applicableWorkflow == FindWorkflowByDuration(wfs, lr.numberOfDays)
  IN
  IF ~isOwner /\ ~isAdminOrHR THEN Result(403, reqs, bals)
  ELSE IF /\ lr.status \in {APPROVED, PARTIALLY_APPROVED}
          /\ isOwner
          /\ ~isAdminOrHR
          /\ applicableWorkflow # <<>>
          /\ Len(applicableWorkflow[1].approvalLevels) > 1
  THEN Result(200, [reqs EXCEPT ![id] = RequestDeletion(lr, userId)], bals)
  ELSE IF lr.status \in {APPROVED, PARTIALLY_APPROVED}
  THEN Result(200, RemoveRow(reqs, id), RevertUsed(bals, lr))
  ELSE Result(200, RemoveRow(reqs, id), bals)

(***************************************************************************)
(* State machine.                                                          *)
(***************************************************************************)
Level(n, roleIds) ==
  [level |-> n, roleIds |-> roleIds, roles |-> {}, departmentSpecific |-> FALSE, required |-> TRUE]

\* The catalog: a two-level workflow whose level numbers are not contiguous
\* for half-day requests, a one-level workflow for one-day requests and a
\* three-level workflow (stored out of order) for longer requests.
InitWorkflows ==
  [ w0 |-> [ id |-> "w0", name |-> "Half day", minDays |-> 1, maxDays |-> 1, isActive |-> TRUE,
             approvalLevels |-> <<Level(1, {"team_lead"}), Level(3, {"hr"})>> ],
    w1 |-> [ id |-> "w1", name |-> "One day", minDays |-> 2, maxDays |-> 2, isActive |-> TRUE,
             approvalLevels |-> <<Level(1, {"team_lead"})>> ],
    w2 |-> [ id |-> "w2", name |-> "Long", minDays |-> 3, maxDays |-> 6, isActive |-> TRUE,
             approvalLevels |-> <<Level(2, {"manager"}), Level(1, {"team_lead"}), Level(3, {"hr"})>> ] ]

InitBalances ==
  [k \in {<<"emp", "annual", 1>>, <<"emp", "annual", 2>>, <<"tl", "annual", 1>>} |->
     [balance |-> 6, used |-> 0, carryForward |-> 2]]

NoResponse == [op |-> "none", code |-> 0, id |-> ""]

Init ==
  /\ leaveRequests = [i \in {} |-> 0]
  /\ leaveBalances = InitBalances
  /\ approvalWorkflows = InitWorkflows
  /\ today = 1
  /\ allocated = {}
  /\ response = NoResponse
  /\ inFlight = <<>>

Response(op, code, id) == [op |-> op, code |-> code, id |-> id]

\* a handler call that returned r
Respond(r, op, id) ==
  /\ leaveRequests' = r.reqs
  /\ leaveBalances' = r.bals
  /\ response' = Response(op, r.code, id)
  /\ UNCHANGED <<approvalWorkflows, today, inFlight>>

\* The rows that exist at the same time belong to one requester: the handlers
\* never read a row of another user than the one they act for.
CreateLeaveRequestIn(ids) ==
  \E userId \in Requesters, leaveTypeId \in LeaveTypes, startDate \in Days, endDate \in Days,
     requestType \in LeaveRequestType :
    /\ ids \ allocated # {}
    /\ \A i \in DOMAIN leaveRequests : leaveRequests[i].userId = userId
    /\ LET id == CHOOSE i \in ids \ allocated : TRUE
           r == createLeaveRequest(leaveRequests, leaveBalances, approvalWorkflows, today,
                                   id, userId, leaveTypeId, startDate, endDate, requestType)
       IN /\ Respond(r, "createLeaveRequest", IF id \in DOMAIN r.reqs THEN id ELSE "")
          /\ allocated' = IF id \in DOMAIN r.reqs THEN allocated \cup {id} ELSE allocated

UpdateLeaveRequestStatusIn(ids, statuses) ==
  \E id \in ids, approverId \in Users, status \in statuses, isAuthorized \in BOOLEAN :
    LET r == updateLeaveRequestStatus(leaveRequests, leaveBalances, approvalWorkflows, today,
                                      id, approverId, status, isAuthorized)
    IN /\ id \in DOMAIN r.reqs /\ r.reqs[id].status = PARTIALLY_APPROVED
             => Len(r.reqs[id].metadata.approvalHistory) <= MaxHistory
       /\ Respond(r, "updateLeaveRequestStatus", id)
       /\ UNCHANGED allocated

CancelLeaveRequestIn(ids) ==
  \E id \in ids, userId \in Users :
    Respond(cancelLeaveRequest(leaveRequests, leaveBalances, today, id, userId),
            "cancelLeaveRequest", id) /\ UNCHANGED allocated

DeleteLeaveRequestIn(ids) ==
  \E id \in ids, userId \in Users :
    Respond(deleteLeaveRequest(leaveRequests, leaveBalances, approvalWorkflows,
                               id, userId, UserTable[userId].role),
            "deleteLeaveRequest", id) /\ UNCHANGED allocated

ApproveDeleteLeaveRequestIn(ids) ==
  \E id \in ids, approverId \in Users :
    Respond(approveDeleteLeaveRequest(leaveRequests, leaveBalances, id, approverId),
            "approveDeleteLeaveRequest", id) /\ UNCHANGED allocated

RejectDeleteLeaveRequestIn(ids) ==
  \E id \in ids, approverId \in Users :
    Respond(rejectDeleteLeaveRequest(leaveRequests, leaveBalances, id, approverId),
            "rejectDeleteLeaveRequest", id) /\ UNCHANGED allocated

\* the date changes
Tick ==
  /\ today < MaxToday
  /\ today' = today + 1
  /\ response' = NoResponse
  /\ UNCHANGED <<leaveRequests, leaveBalances, approvalWorkflows, allocated, inFlight>>

(***************************************************************************)
(* Spec: the whole life of one request row, every status value accepted by *)
(* updateLeaveRequestStatus.                                               *)
(***************************************************************************)
OneRow == {"r1"}

CreateLeaveRequest == CreateLeaveRequestIn(OneRow)
UpdateLeaveRequestStatus == UpdateLeaveRequestStatusIn(OneRow, LeaveRequestStatus)
CancelLeaveRequest == CancelLeaveRequestIn(OneRow)
DeleteLeaveRequest == DeleteLeaveRequestIn(OneRow)
ApproveDeleteLeaveRequest == ApproveDeleteLeaveRequestIn(OneRow)
RejectDeleteLeaveRequest == RejectDeleteLeaveRequestIn(OneRow)

Next ==
  \/ CreateLeaveRequest
  \/ UpdateLeaveRequestStatus
  \/ CancelLeaveRequest
  \/ DeleteLeaveRequest
  \/ ApproveDeleteLeaveRequest
  \/ RejectDeleteLeaveRequest
  \/ Tick

Spec == Init /\ [][Next]_vars

(***************************************************************************)
(* SpecSiblings: two rows of one requester, created, approved, rejected   *)
(* and cancelled; updateLeaveRequestStatus is called with the status       *)
(* values the client sends.                                                *)
(***************************************************************************)
ClientStatuses == {APPROVED, REJECTED}

CreateSibling == CreateLeaveRequestIn(RequestIds)
UpdateSiblingStatus == UpdateLeaveRequestStatusIn(RequestIds, ClientStatuses)
CancelSibling == CancelLeaveRequestIn(RequestIds)

NextSiblings ==
  \/ CreateSibling
  \/ UpdateSiblingStatus
  \/ CancelSibling
  \/ Tick

SpecSiblings == Init /\ [][NextSiblings]_vars

(***************************************************************************)
(* SpecCreation: requests created against a small allowance and against a  *)
(* catalog one of whose levels names a role that no user holds.            *)
(***************************************************************************)
\* allowances in half days; one half day of each has been taken by requests
\* that are no longer stored
SmallBalances == {3, 4}

BalancesOf(balance) ==
  [k \in DOMAIN InitBalances |-> [balance |-> balance, used |-> 1, carryForward |-> 1]]

\* the catalog with a one-day workflow whose first level nobody can approve
UnstaffedWorkflows ==
  [InitWorkflows EXCEPT !.w1.approvalLevels = <<Level(1, {"super_admin"}), Level(2, {"hr"})>>]

InitCreation ==
  /\ leaveRequests = [i \in {} |-> 0]
  /\ leaveBalances \in {BalancesOf(b) : b \in SmallBalances}
  /\ approvalWorkflows \in {InitWorkflows, UnstaffedWorkflows}
  /\ today = 1
  /\ allocated = {}
  /\ response = NoResponse
  /\ inFlight = <<>>

CreateOnAllowance == CreateLeaveRequestIn(RequestIds)
CancelOnAllowance == CancelLeaveRequestIn(RequestIds)
NextDay == Tick

NextCreation ==
  \/ CreateOnAllowance
  \/ CancelOnAllowance
  \/ NextDay

SpecCreation == InitCreation /\ [][NextCreation]_vars

(***************************************************************************)
(* SpecConcurrent: two updateLeaveRequestStatus calls on the same request  *)
(* run at the same time.  The handler opens no transaction and takes no    *)
(* lock: it reads the row (findOne), saves the row, reads the ledger       *)
(* record and saves it, and the two calls interleave between these four    *)
(* repository calls.  Both actors pass isApproverAuthorized.               *)
(***************************************************************************)
Calls == {"a", "b"}

\* a call that has not read anything yet
StartedCall(approverId, status) ==
  [pc |-> "start", approverId |-> approverId, status |-> status,
   lr |-> <<>>, used |-> 0, code |-> 0]

\* what call c computes from the row it has read: the handler applied to the
\* table with that row in place of the stored one
Computed(c) ==
  updateLeaveRequestStatus([leaveRequests EXCEPT ![inFlight.id] = inFlight.calls[c].lr],
                           leaveBalances, approvalWorkflows, today, inFlight.id,
                           inFlight.calls[c].approverId, inFlight.calls[c].status, TRUE)

\* the call goes on to "Update leave balance if approved"
ReachesLedger(c) ==
  /\ Computed(c).code = 200
  /\ inFlight.calls[c].status = APPROVED
  /\ Computed(c).reqs[inFlight.id].status = APPROVED

InFlightKey(c) == BalanceKey(inFlight.calls[c].lr, getCurrentYear(today))

CreateForApprovals ==
  /\ inFlight = <<>>
  /\ CreateLeaveRequestIn(OneRow)

\* two actors send their decisions on the same request
BeginApprovals ==
  /\ inFlight = <<>>
  /\ \E id \in DOMAIN leaveRequests, approverA \in Users, approverB \in Users,
        statusA \in ClientStatuses, statusB \in ClientStatuses :
       inFlight' = [id |-> id,
                    before |-> [reqs |-> leaveRequests, bals |-> leaveBalances],
                    calls |-> [c \in Calls |-> IF c = "a" THEN StartedCall(approverA, statusA)
                                                ELSE StartedCall(approverB, statusB)]]
  /\ response' = NoResponse
  /\ UNCHANGED <<leaveRequests, leaveBalances, approvalWorkflows, today, allocated>>

\* leaveRequestRepository.findOne
ReadRequest ==
  /\ inFlight # <<>>
  /\ \E c \in Calls :
       /\ inFlight.calls[c].pc = "start"
       /\ inFlight' = [inFlight EXCEPT !.calls[c].pc = "read",
                                       !.calls[c].lr = leaveRequests[inFlight.id]]
  /\ UNCHANGED <<leaveRequests, leaveBalances, approvalWorkflows, today, allocated, response>>

\* the checks, the workflow evaluation and leaveRequestRepository.save; a call
\* refused by a check ends here without saving
SaveRequest ==
  /\ inFlight # <<>>
  /\ \E c \in Calls :
       LET r == Computed(c)
           row == r.reqs[inFlight.id]
       IN /\ inFlight.calls[c].pc = "read"
          /\ Len(row.metadata.approvalHistory) <= MaxHistory
          /\ leaveRequests' =
               IF row = inFlight.calls[c].lr THEN leaveRequests
               ELSE [leaveRequests EXCEPT ![inFlight.id] = row]
          /\ inFlight' =
               IF ReachesLedger(c)
               THEN [inFlight EXCEPT !.calls[c].pc = "saved"]
               ELSE [inFlight EXCEPT !.calls[c].pc = "done", !.calls[c].code = r.code]
          /\ response' = IF ReachesLedger(c) THEN response
                         ELSE Response("updateLeaveRequestStatus", r.code, inFlight.id)
  /\ UNCHANGED <<leaveBalances, approvalWorkflows, today, allocated>>

\* leaveBalanceRepository.findOne
ReadBalance ==
  /\ inFlight # <<>>
  /\ \E c \in Calls :
       /\ inFlight.calls[c].pc = "saved"
       /\ IF InFlightKey(c) \in DOMAIN leaveBalances
          THEN /\ inFlight' = [inFlight EXCEPT !.calls[c].pc = "balanceRead",
                                               !.calls[c].used = leaveBalances[InFlightKey(c)].used]
               /\ UNCHANGED response
          ELSE /\ inFlight' = [inFlight EXCEPT !.calls[c].pc = "done", !.calls[c].code = 200]
               /\ response' = Response("updateLeaveRequestStatus", 200, inFlight.id)
  /\ UNCHANGED <<leaveRequests, leaveBalances, approvalWorkflows, today, allocated>>

\* leaveBalance.used = currentUsed + daysToAdd; leaveBalanceRepository.save
SaveBalance ==
  /\ inFlight # <<>>
  /\ \E c \in Calls :
       /\ inFlight.calls[c].pc = "balanceRead"
       /\ leaveBalances' =
            [leaveBalances EXCEPT ![InFlightKey(c)].used =
               inFlight.calls[c].used + inFlight.calls[c].lr.numberOfDays]
       /\ inFlight' = [inFlight EXCEPT !.calls[c].pc = "done", !.calls[c].code = 200]
       /\ response' = Response("updateLeaveRequestStatus", 200, inFlight.id)
  /\ UNCHANGED <<leaveRequests, approvalWorkflows, today, allocated>>

\* both calls have answered
EndApprovals ==
  /\ inFlight # <<>>
  /\ \A c \in Calls : inFlight.calls[c].pc = "done"
  /\ inFlight' = <<>>
  /\ UNCHANGED <<leaveRequests, leaveBalances, approvalWorkflows, today, allocated, response>>

NextConcurrent ==
  \/ CreateForApprovals
  \/ BeginApprovals
  \/ ReadRequest
  \/ SaveRequest
  \/ ReadBalance
  \/ SaveBalance
  \/ EndApprovals

SpecConcurrent == Init /\ [][NextConcurrent]_vars

(***************************************************************************)
(* SpecNotifier: the handlers with a notifier (emailService) that can      *)
(* throw.  Only createLeaveRequest sends its notifications inside a        *)
(* try/catch of their own; in the other handlers the await of the notifier *)
(* is covered by the catch of the whole handler, which answers 500.        *)
(***************************************************************************)
\* the user has a manager to notify
HasManager(userId) == UserTable[userId].managerId \in Users

\* the answer of a handler that computed r and then notifies, if it got as
\* far as the notification (reached)
AfterNotifying(r, reached, notifierThrows) ==
  IF r.code = 200 /\ reached /\ notifierThrows THEN Result(500, r.reqs, r.bals) ELSE r

\* createLeaveRequest logs the error and goes on to the 201
createLeaveRequestNotifying(r, notifierThrows) == r

updateLeaveRequestStatusNotifying(r, notifierThrows) ==
  AfterNotifying(r, TRUE, notifierThrows)

cancelLeaveRequestNotifying(r, userId, notifierThrows) ==
  AfterNotifying(r, HasManager(userId), notifierThrows)

deleteLeaveRequestNotifying(r, userId, notifierThrows) ==
  AfterNotifying(r, HasManager(userId), notifierThrows)

approveDeleteLeaveRequestNotifying(r, notifierThrows) ==
  AfterNotifying(r, TRUE, notifierThrows)

rejectDeleteLeaveRequestNotifying(r, notifierThrows) ==
  AfterNotifying(r, TRUE, notifierThrows)

CreateNotifying ==
  \E userId \in Requesters, leaveTypeId \in LeaveTypes, startDate \in Days, endDate \in Days,
     requestType \in LeaveRequestType, notifierThrows \in BOOLEAN :
    /\ OneRow \ allocated # {}
    /\ LET id == CHOOSE i \in OneRow \ allocated : TRUE
           r == createLeaveRequestNotifying(
                  createLeaveRequest(leaveRequests, leaveBalances, approvalWorkflows, today,
                                     id, userId, leaveTypeId, startDate, endDate, requestType),
                  notifierThrows)
       IN /\ Respond(r, "createLeaveRequest", IF id \in DOMAIN r.reqs THEN id ELSE "")
          /\ allocated' = IF id \in DOMAIN r.reqs THEN allocated \cup {id} ELSE allocated

UpdateNotifying ==
  \E id \in OneRow, approverId \in Users, status \in ClientStatuses, isAuthorized \in BOOLEAN,
     notifierThrows \in BOOLEAN :
    LET r == updateLeaveRequestStatusNotifying(
               updateLeaveRequestStatus(leaveRequests, leaveBalances, approvalWorkflows, today,
                                        id, approverId, status, isAuthorized),
               notifierThrows)
    IN /\ id \in DOMAIN r.reqs /\ r.reqs[id].status = PARTIALLY_APPROVED
             => Len(r.reqs[id].metadata.approvalHistory) <= MaxHistory
       /\ Respond(r, "updateLeaveRequestStatus", id)
       /\ UNCHANGED allocated

CancelNotifying ==
  \E id \in OneRow, userId \in Users, notifierThrows \in BOOLEAN :
    /\ Respond(cancelLeaveRequestNotifying(
                 cancelLeaveRequest(leaveRequests, leaveBalances, today, id, userId),
                 userId, notifierThrows),
               "cancelLeaveRequest", id)
    /\ UNCHANGED allocated

DeleteNotifying ==
  \E id \in OneRow, userId \in Users, notifierThrows \in BOOLEAN :
    /\ Respond(deleteLeaveRequestNotifying(
                 deleteLeaveRequest(leaveRequests, leaveBalances, approvalWorkflows,
                                    id, userId, UserTable[userId].role),
                 userId, notifierThrows),
               "deleteLeaveRequest", id)
    /\ UNCHANGED allocated

ApproveDeleteNotifying ==
  \E id \in OneRow, approverId \in Users, notifierThrows \in BOOLEAN :
    /\ Respond(approveDeleteLeaveRequestNotifying(
                 approveDeleteLeaveRequest(leaveRequests, leaveBalances, id, approverId),
                 notifierThrows),
               "approveDeleteLeaveRequest", id)
    /\ UNCHANGED allocated

RejectDeleteNotifying ==
  \E id \in OneRow, approverId \in Users, notifierThrows \in BOOLEAN :
    /\ Respond(rejectDeleteLeaveRequestNotifying(
                 rejectDeleteLeaveRequest(leaveRequests, leaveBalances, id, approverId),
                 notifierThrows),
               "rejectDeleteLeaveRequest", id)
    /\ UNCHANGED allocated

NextNotifier ==
  \/ CreateNotifying
  \/ UpdateNotifying
  \/ CancelNotifying
  \/ DeleteNotifying
  \/ ApproveDeleteNotifying
  \/ RejectDeleteNotifying

SpecNotifier == Init /\ [][NextNotifier]_vars

(***************************************************************************)
(* Properties.  A handler call in the current state is written as the      *)
(* handler applied to the current tables.                                  *)
(***************************************************************************)
UpdateCall(id, approverId, status, isAuthorized) ==
  updateLeaveRequestStatus(leaveRequests, leaveBalances, approvalWorkflows, today,
                           id, approverId, status, isAuthorized)

Awaiting(id) == leaveRequests[id].status \in {PENDING, PARTIALLY_APPROVED}

\* the highest level of the workflow request id is approved under (0: no workflow)
HighestLevel(id) ==
  LET wf == ApplicableWorkflow(approvalWorkflows, leaveRequests[id])
  IN IF wf = <<>> \/ wf[1].approvalLevels = <<>> THEN 0
     ELSE LET sortedLevels == SortByLevel(wf[1].approvalLevels)
          IN sortedLevels[Len(sortedLevels)].level

\* the level approverId would approve request id at (0: none)
ApproverLevel(id, approverId) ==
  LET wf == ApplicableWorkflow(approvalWorkflows, leaveRequests[id])
  IN IF wf = <<>> THEN 0
     ELSE CurrentApproverLevel(SortByLevel(wf[1].approvalLevels), leaveRequests[id], approverId)

\* approverId approves request id at its final level
AtFinalLevel(id, approverId) ==
  /\ Awaiting(id)
  /\ HighestLevel(id) # 0
  /\ ApproverLevel(id, approverId) = HighestLevel(id)

\* every ledger record except key is the same in bals and in leaveBalances
OtherRecordsKept(bals, key) ==
  /\ DOMAIN bals = DOMAIN leaveBalances
  /\ \A k \in DOMAIN leaveBalances \ {key} : bals[k] = leaveBalances[k]

\* C1: when updateLeaveRequestStatus is asked to approve a request at its final
\* level while another approved request of the same user shares a day with it,
\* the call answers 409 and leaves the request rows and the ledger as they were.
C1_OverlapRejectedWithoutMutation ==
  \A id \in DOMAIN leaveRequests, approverId \in Users :
    (AtFinalLevel(id, approverId) /\ OverlappingApproved(leaveRequests, id) # {})
      => LET r == UpdateCall(id, approverId, APPROVED, TRUE)
         IN /\ r.code = 409
            /\ r.reqs = leaveRequests
            /\ r.bals = leaveBalances

LevelDefinition(wf, n) ==
  CHOOSE l \in Range(wf.approvalLevels) : l.level = n

\* the tables after the approvers of the given levels have approved request id in turn
RECURSIVE ApproveInTurn(_, _, _, _)
ApproveInTurn(st, id, levels, approverOf) ==
  IF levels = <<>> THEN st
  ELSE ApproveInTurn(updateLeaveRequestStatus(st.reqs, st.bals, approvalWorkflows, today,
                                              id, approverOf[Head(levels)], APPROVED, TRUE),
                     id, Tail(levels), approverOf)

\* the ways to pick, for each required level of request id, a user holding a role of that level
ApproverChoices(id) ==
  LET md == leaveRequests[id].metadata
      wf == approvalWorkflows[md.workflowId]
  IN {f \in [Range(md.requiredApprovalLevels) -> Users] :
        \A n \in Range(md.requiredApprovalLevels) : MatchesLevel(LevelDefinition(wf, n), f[n])}

\* C3: for a pending request, approving directly at the highest required level
\* ends in the same status and the same ledger as approving at every required
\* level in ascending order.
C3_DirectEqualsLevelByLevel ==
  \A id \in DOMAIN leaveRequests :
    LET md == leaveRequests[id].metadata
        required == md.requiredApprovalLevels
    IN (leaveRequests[id].status = PENDING /\ required # <<>>)
         => \A approverOf \in ApproverChoices(id) :
              LET direct == UpdateCall(id, approverOf[required[Len(required)]], APPROVED, TRUE)
                  inTurn == ApproveInTurn(Result(0, leaveRequests, leaveBalances), id,
                                          required, approverOf)
              IN /\ direct.reqs[id].status = inTurn.reqs[id].status
                 /\ direct.bals = inTurn.bals

\* C4: metadata.currentApprovalLevel of a request never decreases.
C4_CurrentLevelNeverDecreases ==
  [][\A id \in DOMAIN leaveRequests \cap DOMAIN leaveRequests' :
       leaveRequests'[id].metadata.currentApprovalLevel
         >= leaveRequests[id].metadata.currentApprovalLevel]_vars

\* C5: metadata.requiredApprovalLevels of a request holds no level whose
\* definition, in the workflow the request was created under, lists the
\* requester's role (metadata.requestUserRole) in roleIds.
C5_RequiredLevelsExcludeOwnRole ==
  \A id \in DOMAIN leaveRequests :
    LET md == leaveRequests[id].metadata
        wf == approvalWorkflows[md.workflowId]
    IN \A n \in Range(md.requiredApprovalLevels) :
         \A l \in Range(wf.approvalLevels) :
           l.level = n => md.requestUserRole \notin l.roleIds

\* C6: metadata.requiredApprovalLevels of a request is not changed by any
\* operation after createLeaveRequest.
C6_RequiredLevelsFixed ==
  [][\A id \in DOMAIN leaveRequests \cap DOMAIN leaveRequests' :
       leaveRequests'[id].metadata.requiredApprovalLevels
         = leaveRequests[id].metadata.requiredApprovalLevels]_vars

CancelCall(id, userId) ==
  cancelLeaveRequest(leaveRequests, leaveBalances, today, id, userId)

C9_RejectDeleteRestoresPriorStatus ==
  [][\A id \in DOMAIN leaveRequests \cap DOMAIN leaveRequests' :
       (/\ leaveRequests[id].status # PENDING_DELETION
        /\ leaveRequests'[id].status = PENDING_DELETION)
         => \A approverId \in Users :
              MayDecideDeletion(approverId, leaveRequests'[id].userId)
                => LET r == rejectDeleteLeaveRequest(leaveRequests', leaveBalances',
                                                     id, approverId)
                   IN /\ r.code = 200
                      /\ id \in DOMAIN r.reqs
                      /\ r.reqs[id].status = leaveRequests[id].status
                      /\ r.bals = leaveBalances']_vars

\* C10: a rejection through updateLeaveRequestStatus of a pending or
\* partially_approved request, by an authorized actor, answers 200, sets
\* status to rejected and changes nothing else: not the ledger, not
\* currentApprovalLevel, not approvalHistory, no other row.
C10_RejectionChangesStatusOnly ==
  \A id \in DOMAIN leaveRequests, approverId \in Users :
    LET lr == leaveRequests[id]
        r == UpdateCall(id, approverId, REJECTED, TRUE)
    IN lr.status \in {PENDING, PARTIALLY_APPROVED}
         => /\ r.code = 200
            /\ r.reqs = [leaveRequests EXCEPT ![id].status = REJECTED]
            /\ r.bals = leaveBalances

\* a partially approved request has just been rejected
C10_Witness ==
  /\ response.op = "updateLeaveRequestStatus"
  /\ response.code = 200
  /\ response.id \in DOMAIN leaveRequests
  /\ LET lr == leaveRequests[response.id]
     IN /\ lr.status = REJECTED
        /\ lr.metadata.currentApprovalLevel > 0
        /\ Len(lr.metadata.approvalHistory) = 1

\* C11: used of every ledger record is >= 0 in every reachable state.
C11_UsedNeverNegative ==
  \A key \in DOMAIN leaveBalances : leaveBalances[key].used >= 0

\* used of some record is higher in bals than in leaveBalances
UsedRaised(bals) ==
  \E key \in DOMAIN leaveBalances : bals[key].used > leaveBalances[key].used

\* used of some record is lower in bals than in leaveBalances
UsedLowered(bals) ==
  \E key \in DOMAIN leaveBalances : bals[key].used < leaveBalances[key].used

\* request id is approved, or awaits deletion with originalStatus approved
CountsAsApproved(id) ==
  LET lr == leaveRequests[id]
  IN \/ lr.status = APPROVED
     \/ lr.status = PENDING_DELETION /\ lr.metadata.originalStatus = APPROVED

\* C12: a handler call raises used only when it moves a request into
\* approved, and lowers used only when it cancels or deletes (directly or by
\* approving a deletion) a request whose status, or saved originalStatus, is
\* approved; createLeaveRequest and rejectDeleteLeaveRequest leave the ledger
\* as it is.
C12_UsedChangesOnlyWithApproved ==
  /\ \A userId \in Requesters, leaveTypeId \in LeaveTypes, startDate \in Days,
        endDate \in Days, requestType \in LeaveRequestType, id \in RequestIds \ allocated :
       createLeaveRequest(leaveRequests, leaveBalances, approvalWorkflows, today, id,
                          userId, leaveTypeId, startDate, endDate, requestType).bals
         = leaveBalances
  /\ \A id \in DOMAIN leaveRequests, actor \in Users :
       /\ \A status \in LeaveRequestStatus, isAuthorized \in BOOLEAN :
            LET r == UpdateCall(id, actor, status, isAuthorized)
            IN /\ ~UsedLowered(r.bals)
               /\ UsedRaised(r.bals)
                    => /\ leaveRequests[id].status # APPROVED
                       /\ r.reqs[id].status = APPROVED
       /\ LET r == CancelCall(id, actor)
          IN ~UsedRaised(r.bals) /\ (UsedLowered(r.bals) => CountsAsApproved(id))
       /\ LET r == deleteLeaveRequest(leaveRequests, leaveBalances, approvalWorkflows,
                                      id, actor, UserTable[actor].role)
          IN ~UsedRaised(r.bals) /\ (UsedLowered(r.bals) => CountsAsApproved(id))
       /\ LET r == approveDeleteLeaveRequest(leaveRequests, leaveBalances, id, actor)
          IN ~UsedRaised(r.bals) /\ (UsedLowered(r.bals) => CountsAsApproved(id))
       /\ rejectDeleteLeaveRequest(leaveRequests, leaveBalances, id, actor).bals
            = leaveBalances

\* C13: an approval or a rejection through updateLeaveRequestStatus of a
\* request that is neither pending nor partially approved answers 400 and
\* changes neither the requests nor the ledger, whoever calls and whatever
\* the authorization answer is.
C13_DecidedRequestRefused ==
  \A id \in DOMAIN leaveRequests, approverId \in Users,
     status \in {APPROVED, REJECTED}, isAuthorized \in BOOLEAN :
    leaveRequests[id].status \notin {PENDING, PARTIALLY_APPROVED}
      => LET r == UpdateCall(id, approverId, status, isAuthorized)
         IN r.code = 400 /\ r.reqs = leaveRequests /\ r.bals = leaveBalances

\* updateLeaveRequestStatus has just answered 400 for a request that awaits
\* deletion
C13_Witness ==
  /\ response.op = "updateLeaveRequestStatus"
  /\ response.code = 400
  /\ response.id \in DOMAIN leaveRequests
  /\ leaveRequests[response.id].status = PENDING_DELETION

\* C14: an approval of a pending or partially approved request by its own
\* owner answers 403 and changes neither the requests nor the ledger, whatever
\* approverService.isApproverAuthorized answers for the owner.
C14_SelfApprovalRefused ==
  \A id \in DOMAIN leaveRequests, isAuthorized \in BOOLEAN :
    Awaiting(id)
      => LET r == UpdateCall(id, leaveRequests[id].userId, APPROVED, isAuthorized)
         IN r.code = 403 /\ r.reqs = leaveRequests /\ r.bals = leaveBalances

(***************************************************************************)
(* approvalWorkflowService: createApprovalWorkflow, updateApprovalWorkflow *)
(* and deleteApprovalWorkflow on the approval_workflows table.  A call     *)
(* either returns (ok) or throws; a call that throws has saved nothing.    *)
(* workflowData is a Partial<ApprovalWorkflow>: a field is <<v>> when it   *)
(* is given and <<>> when it is undefined.  Names are non-empty strings.   *)
(***************************************************************************)
MaxWorkflowDays == 2    \* minDays and maxDays range over 1..MaxWorkflowDays

WorkflowIds == {"w0", "w1"}
WorkflowNames == {"Short", "Medium", "Long"}
WorkflowDays == 1..MaxWorkflowDays

Given(S) == {<<>>} \cup {<<v>> : v \in S}

\* error: "" when the call returns, else the Error it throws
ServiceResult(error, wfs) == [error |-> error, wfs |-> wfs]

\* findOne({ where: { name } })
WorkflowsNamed(wfs, name) == {i \in DOMAIN wfs : wfs[i].name = name}

\* find({ where: [{ minDays: LessThanOrEqual(maxDays), maxDays: MoreThanOrEqual(minDays) }] })
WorkflowsOverlapping(wfs, minDays, maxDays) ==
  {i \in DOMAIN wfs : wfs[i].minDays <= maxDays /\ wfs[i].maxDays >= minDays}

\* id is the generated primary key of the new workflow
createApprovalWorkflow(wfs, id, workflowData) ==
  IF WorkflowsNamed(wfs, workflowData.name) # {}
  THEN ServiceResult("Approval workflow with this name already exists", wfs)
  ELSE IF WorkflowsOverlapping(wfs, workflowData.minDays, workflowData.maxDays) # {}
  THEN ServiceResult("This workflow overlaps with an existing workflow", wfs)
  ELSE ServiceResult("", [i \in DOMAIN wfs \cup {id} |->
                              IF i = id
                              THEN [id |-> id, name |-> workflowData.name,
                                    minDays |-> workflowData.minDays,
                                    maxDays |-> workflowData.maxDays,
                                    approvalLevels |-> workflowData.approvalLevels,
                                    isActive |-> workflowData.isActive]
                              ELSE wfs[i]])

\* a variant that compares the ranges only when minDays changes; C15 tells it
\* from RangeChanges
RangeChangesByMinDays(approvalWorkflow, workflowData) ==
  workflowData.minDays # <<>> /\ workflowData.minDays[1] # approvalWorkflow.minDays

\* "Check for overlapping workflows if changing min/max days"
RangeChanges(approvalWorkflow, workflowData) ==
  \/ workflowData.minDays # <<>> /\ workflowData.minDays[1] # approvalWorkflow.minDays
  \/ workflowData.maxDays # <<>> /\ workflowData.maxDays[1] # approvalWorkflow.maxDays

\* a variant that takes every new name as free; C16 tells it from NameInUse
NameNeverInUse(wfs, approvalWorkflow, workflowData) == FALSE

\* "If name is being updated, check if it's already in use"
NameInUse(wfs, approvalWorkflow, workflowData) ==
  /\ workflowData.name # <<>>
  /\ workflowData.name[1] # approvalWorkflow.name
  /\ WorkflowsNamed(wfs, workflowData.name[1]) # {}

\* approvalWorkflowRepository.merge(approvalWorkflow, workflowData)
MergeWorkflow(approvalWorkflow, workflowData) ==
  [approvalWorkflow EXCEPT
     !.name = IF workflowData.name # <<>> THEN workflowData.name[1] ELSE @,
     !.minDays = IF workflowData.minDays # <<>> THEN workflowData.minDays[1] ELSE @,
     !.maxDays = IF workflowData.maxDays # <<>> THEN workflowData.maxDays[1] ELSE @,
     !.isActive = IF workflowData.isActive # <<>> THEN workflowData.isActive[1] ELSE @]

updateApprovalWorkflow(wfs, workflowId, workflowData) ==
  IF workflowId \notin DOMAIN wfs THEN ServiceResult("Approval workflow not found", wfs)
  ELSE
  LET approvalWorkflow == wfs[workflowId]
      newMinDays == IF workflowData.minDays # <<>> THEN workflowData.minDays[1]
                    ELSE approvalWorkflow.minDays
      newMaxDays == IF workflowData.maxDays # <<>> THEN workflowData.maxDays[1]
                    ELSE approvalWorkflow.maxDays
  IN
  IF NameInUse(wfs, approvalWorkflow, workflowData)
  THEN ServiceResult("Approval workflow name is already in use", wfs)
  ELSE IF /\ RangeChanges(approvalWorkflow, workflowData)
          /\ WorkflowsOverlapping(wfs, newMinDays, newMaxDays) \ {workflowId} # {}
  THEN ServiceResult("This workflow would overlap with an existing workflow", wfs)
  ELSE ServiceResult("", [wfs EXCEPT ![workflowId] = MergeWorkflow(approvalWorkflow, workflowData)])

deleteApprovalWorkflow(wfs, workflowId) ==
  IF workflowId \notin DOMAIN wfs THEN ServiceResult("Approval workflow not found", wfs)
  ELSE ServiceResult("", [i \in DOMAIN wfs \ {workflowId} |-> wfs[i]])

\* The catalog is empty before the first call.
InitCatalog ==
  /\ leaveRequests = [i \in {} |-> 0]
  /\ leaveBalances = InitBalances
  /\ approvalWorkflows = [i \in {} |-> 0]
  /\ today = 1
  /\ allocated = {}
  /\ response = NoResponse
  /\ inFlight = <<>>

\* a service call that ended with r; response.code is 0 when it returned and
\* 1 when it threw, response.id the text of the Error
RespondService(r, op) ==
  /\ approvalWorkflows' = r.wfs
  /\ response' = Response(op, IF r.error = "" THEN 0 ELSE 1, r.error)
  /\ UNCHANGED <<leaveRequests, leaveBalances, today, allocated, inFlight>>

OneLevel == <<Level(1, {"team_lead"})>>

CreateApprovalWorkflow ==
  \E name \in WorkflowNames, minDays \in WorkflowDays, maxDays \in WorkflowDays,
     isActive \in BOOLEAN :
    /\ WorkflowIds \ DOMAIN approvalWorkflows # {}
    /\ LET id == CHOOSE i \in WorkflowIds \ DOMAIN approvalWorkflows : TRUE
       IN RespondService(createApprovalWorkflow(approvalWorkflows, id,
                            [name |-> name, minDays |-> minDays, maxDays |-> maxDays,
                             approvalLevels |-> OneLevel, isActive |-> isActive]),
                         "createApprovalWorkflow")

UpdateApprovalWorkflow ==
  \E workflowId \in WorkflowIds, name \in Given(WorkflowNames), minDays \in Given(WorkflowDays),
     maxDays \in Given(WorkflowDays), isActive \in Given(BOOLEAN) :
    RespondService(updateApprovalWorkflow(approvalWorkflows, workflowId,
                      [name |-> name, minDays |-> minDays, maxDays |-> maxDays,
                       isActive |-> isActive]),
                   "updateApprovalWorkflow")

DeleteApprovalWorkflow ==
  \E workflowId \in WorkflowIds :
    RespondService(deleteApprovalWorkflow(approvalWorkflows, workflowId),
                   "deleteApprovalWorkflow")

NextWorkflows ==
  \/ CreateApprovalWorkflow
  \/ UpdateApprovalWorkflow
  \/ DeleteApprovalWorkflow

SpecWorkflows == InitCatalog /\ [][NextWorkflows]_vars

(***************************************************************************)
(* approvalWorkflowService.getApproversForWorkflowLevel, on user tables    *)
(* with departments and with users that are no longer active.              *)
(***************************************************************************)
Departments == {"d1", "d2"}
DepartmentOf == [emp |-> "d1", tl |-> "d1", mgr |-> "d2", hr |-> "d2"]

\* the order in which userRepository.find returns the rows
UserOrder == <<"emp", "tl", "mgr", "hr">>

\* the users table when the users of inactive have been deactivated
UsersWithInactive(inactive) ==
  [u \in Users |-> [id |-> u, roleId |-> UserTable[u].roleId,
                    departmentId |-> DepartmentOf[u], isActive |-> u \notin inactive]]

UserTables == {UsersWithInactive(inactive) : inactive \in SUBSET {"tl", "hr"}}

ApproverLevels ==
  {[Level(1, roleIds) EXCEPT !.departmentSpecific = departmentSpecific] :
     roleIds \in SUBSET {"team_lead", "manager", "hr"}, departmentSpecific \in BOOLEAN}

\* a variant that leaves the requester among the approvers; C28 tells it from
\* RemoveRequester
KeepRequester(potentialApprovers, requesterId) == potentialApprovers

\* "Remove the requester from potential approvers"; requesterId is <<>> when
\* the argument is not given
RemoveRequester(potentialApprovers, requesterId) ==
  LET NotRequester(user) == user.id # requesterId[1]
  IN IF requesterId # <<>> THEN SelectSeq(potentialApprovers, NotRequester)
     ELSE potentialApprovers

\* "Remove duplicates based on user ID": the first row of each id stays
RemoveDuplicates(potentialApprovers) ==
  LET First(index) ==
        \A j \in 1..(index - 1) : potentialApprovers[j].id # potentialApprovers[index].id
      RECURSIVE Keep(_)
      Keep(index) ==
        IF index > Len(potentialApprovers) THEN <<>>
        ELSE (IF First(index) THEN <<potentialApprovers[index]>> ELSE <<>>) \o Keep(index + 1)
  IN Keep(1)

\* departmentId is <<>> when the argument is not given
getApproversForWorkflowLevel(users, level, requesterId, departmentId) ==
  LET rows == [i \in 1..Len(UserOrder) |-> users[UserOrder[i]]]
      InRoles(user) == user.roleId \in level.roleIds /\ user.isActive
      roleUsers == IF level.roleIds # {} THEN SelectSeq(rows, InRoles) ELSE <<>>
      InDepartment(user) == user.departmentId = departmentId[1]
      inDepartment == IF level.departmentSpecific /\ departmentId # <<>>
                      THEN SelectSeq(roleUsers, InDepartment)
                      ELSE roleUsers
  IN RemoveDuplicates(RemoveRequester(inDepartment, requesterId))

\* the service is called; inFlight keeps the arguments, response.id the
\* returned list
GetApproversForWorkflowLevel ==
  \E users \in UserTables, level \in ApproverLevels, requesterId \in Given(Users),
     departmentId \in Given(Departments) :
    /\ inFlight' = [users |-> users, level |-> level, requesterId |-> requesterId,
                    departmentId |-> departmentId]
    /\ response' = Response("getApproversForWorkflowLevel", 0,
                            getApproversForWorkflowLevel(users, level, requesterId, departmentId))
    /\ UNCHANGED <<leaveRequests, leaveBalances, approvalWorkflows, today, allocated>>

NextApprovers == GetApproversForWorkflowLevel

SpecApprovers == InitCatalog /\ [][NextApprovers]_vars

Min(a, b) == IF a <= b THEN a ELSE b

\* the ranges [minDays, maxDays] of two workflows have a point in common
RangesIntersect(a, b) == Max(a.minDays, b.minDays) <= Min(a.maxDays, b.maxDays)

\* C15: no two distinct active workflows have intersecting [minDays, maxDays]
\* ranges, after any sequence of createApprovalWorkflow, updateApprovalWorkflow
\* and deleteApprovalWorkflow calls.
C15_ActiveRangesDisjoint ==
  \A i \in DOMAIN approvalWorkflows, j \in DOMAIN approvalWorkflows :
    (i # j /\ approvalWorkflows[i].isActive /\ approvalWorkflows[j].isActive)
      => ~RangesIntersect(approvalWorkflows[i], approvalWorkflows[j])

\* an update has just been saved and two workflows are active
C15_Witness ==
  /\ response.op = "updateApprovalWorkflow"
  /\ response.code = 0
  /\ Cardinality({i \in DOMAIN approvalWorkflows : approvalWorkflows[i].isActive}) = 2

\* C16: no two stored workflows have the same name; createApprovalWorkflow
\* with the name of a stored workflow, and updateApprovalWorkflow renaming a
\* workflow to the name of another stored workflow, throw and leave the
\* catalog as it is.
C16_NamesUnique ==
  /\ \A i \in DOMAIN approvalWorkflows, j \in DOMAIN approvalWorkflows :
       i # j => approvalWorkflows[i].name # approvalWorkflows[j].name
  /\ \A name \in WorkflowNames, minDays \in WorkflowDays, maxDays \in WorkflowDays,
        isActive \in BOOLEAN :
       WorkflowsNamed(approvalWorkflows, name) # {}
         => LET r == createApprovalWorkflow(approvalWorkflows, "new",
                        [name |-> name, minDays |-> minDays, maxDays |-> maxDays,
                         approvalLevels |-> OneLevel, isActive |-> isActive])
            IN r.error # "" /\ r.wfs = approvalWorkflows
  /\ \A workflowId \in DOMAIN approvalWorkflows, name \in WorkflowNames,
        minDays \in Given(WorkflowDays), maxDays \in Given(WorkflowDays),
        isActive \in Given(BOOLEAN) :
       WorkflowsNamed(approvalWorkflows, name) \ {workflowId} # {}
         => LET r == updateApprovalWorkflow(approvalWorkflows, workflowId,
                        [name |-> <<name>>, minDays |-> minDays, maxDays |-> maxDays,
                         isActive |-> isActive])
            IN r.error # "" /\ r.wfs = approvalWorkflows

\* a rename to the name of another workflow has just been refused
C16_Witness ==
  /\ response.op = "updateApprovalWorkflow"
  /\ response.id = "Approval workflow name is already in use"
  /\ Cardinality(DOMAIN approvalWorkflows) = 2

\* createLeaveRequest called in the current state; the new row would get a
\* fresh id
CreateCall(userId, leaveTypeId, startDate, endDate, requestType) ==
  createLeaveRequest(leaveRequests, leaveBalances, approvalWorkflows, today, "new",
                     userId, leaveTypeId, startDate, endDate, requestType)

\* the pending or approved requests of userId that have a calendar day in
\* common with startDate..endDate
SharingADay(userId, startDate, endDate) ==
  {i \in DOMAIN leaveRequests :
     /\ leaveRequests[i].userId = userId
     /\ leaveRequests[i].status \in {PENDING, APPROVED}
     /\ \E d \in startDate..endDate :
          leaveRequests[i].startDate <= d /\ d <= leaveRequests[i].endDate}

FirstRequiredLevel(userId, numberOfDays) ==
  LET wf == getApprovalWorkflow(approvalWorkflows, numberOfDays)
      requiredLevels == IF wf = <<>> THEN <<>>
                        ELSE RequiredLevels(wf[1].approvalLevels, UserTable[userId].role)
      IsFirst(l) == l.level = requiredLevels[1]
  IN IF requiredLevels = <<>> THEN <<>>
     ELSE SelectFirst(wf[1].approvalLevels, IsFirst)

\* the request gets past the checks made before the allowance is looked at
PassesEarlierChecks(userId, leaveTypeId, startDate, endDate, requestType) ==
  /\ startDate <= endDate
  /\ startDate >= today
  /\ requestType = FULL_DAY \/ startDate = endDate
  /\ SharingADay(userId, startDate, endDate) = {}
  /\ <<userId, leaveTypeId, getCurrentYear(today)>> \in DOMAIN leaveBalances

\* numberOfDays <= balance + carryForward - used - pending days, on the ledger
\* record of the current year
WithinAllowance(userId, leaveTypeId, numberOfDays) ==
  LET key == <<userId, leaveTypeId, getCurrentYear(today)>>
  IN /\ key \in DOMAIN leaveBalances
     /\ numberOfDays <= leaveBalances[key].balance + leaveBalances[key].carryForward
                          - leaveBalances[key].used
                          - PendingDays(leaveRequests, userId, leaveTypeId)

\* C18 as stated: createLeaveRequest succeeds only within the allowance, and
\* a request beyond the allowance is refused with the insufficient-balance
\* error (400) and nothing is stored.
C18_BeyondAllowanceAlways400 ==
  \A userId \in Requesters, leaveTypeId \in LeaveTypes, startDate \in Days, endDate \in Days,
     requestType \in LeaveRequestType :
    LET r == CreateCall(userId, leaveTypeId, startDate, endDate, requestType)
        numberOfDays == NumberOfDays(startDate, endDate, requestType)
    IN /\ r.code = 201 => WithinAllowance(userId, leaveTypeId, numberOfDays)
       /\ <<userId, leaveTypeId, getCurrentYear(today)>> \in DOMAIN leaveBalances
          /\ ~WithinAllowance(userId, leaveTypeId, numberOfDays)
            => r.code = 400 /\ r.reqs = leaveRequests /\ r.bals = leaveBalances

\* C18, amended: createLeaveRequest succeeds only within the allowance; a
\* request beyond the allowance is never stored, and it is refused with the
\* insufficient-balance error (400) when it passes the checks made before
\* (dates, half-day span, overlap, existence of the ledger record).
C18_CreateWithinAllowance ==
  \A userId \in Requesters, leaveTypeId \in LeaveTypes, startDate \in Days, endDate \in Days,
     requestType \in LeaveRequestType :
    LET r == CreateCall(userId, leaveTypeId, startDate, endDate, requestType)
        numberOfDays == NumberOfDays(startDate, endDate, requestType)
    IN /\ r.code = 201 => WithinAllowance(userId, leaveTypeId, numberOfDays)
       /\ ~WithinAllowance(userId, leaveTypeId, numberOfDays)
            => /\ r.code # 201
               /\ r.reqs = leaveRequests
               /\ r.bals = leaveBalances
               /\ PassesEarlierChecks(userId, leaveTypeId, startDate, endDate, requestType)
                    => r.code = 400

\* createLeaveRequest has just refused a request for want of allowance: a
\* one-day request for tomorrow would pass every earlier check, and the
\* allowance left is below one day
C18_Witness ==
  /\ response.op = "createLeaveRequest"
  /\ response.code = 400
  /\ \E userId \in Requesters, leaveTypeId \in LeaveTypes, d \in Days :
       /\ PassesEarlierChecks(userId, leaveTypeId, d, d, FULL_DAY)
       /\ ~WithinAllowance(userId, leaveTypeId, 2)
       /\ PendingDays(leaveRequests, userId, leaveTypeId) > 0

\* C19: when the first required level of the new request has no approver,
\* createLeaveRequest answers with the no-approver error (400) and the stored
\* leave requests are the same as before the call.
C19_NoApproverStoresNothing ==
  \A userId \in Requesters, leaveTypeId \in LeaveTypes, startDate \in Days, endDate \in Days,
     requestType \in LeaveRequestType :
    LET r == CreateCall(userId, leaveTypeId, startDate, endDate, requestType)
        numberOfDays == NumberOfDays(startDate, endDate, requestType)
        level == FirstRequiredLevel(userId, numberOfDays)
    IN /\ PassesEarlierChecks(userId, leaveTypeId, startDate, endDate, requestType)
       /\ WithinAllowance(userId, leaveTypeId, numberOfDays)
       /\ level # <<>>
       /\ findApproversByRoleIds(level[1].roleIds) = {}
       => r.code = 400 /\ r.reqs = leaveRequests

\* after a call that returned r, row id is gone or has the status it had
StatusKept(r, id) ==
  id \in DOMAIN r.reqs => r.reqs[id].status = leaveRequests[id].status

\* C20: a request that is rejected or cancelled keeps its status under every
\* operation; the only thing that can still happen to it is its removal.
C20_RejectedAndCancelledAreFinal ==
  \A id \in DOMAIN leaveRequests :
    leaveRequests[id].status \in {REJECTED, CANCELLED}
      => /\ \A approverId \in Users, status \in LeaveRequestStatus, isAuthorized \in BOOLEAN :
              StatusKept(UpdateCall(id, approverId, status, isAuthorized), id)
         /\ \A userId \in Users :
              /\ StatusKept(CancelCall(id, userId), id)
              /\ StatusKept(deleteLeaveRequest(leaveRequests, leaveBalances, approvalWorkflows,
                                               id, userId, UserTable[userId].role), id)
              /\ StatusKept(approveDeleteLeaveRequest(leaveRequests, leaveBalances, id, userId), id)
              /\ StatusKept(rejectDeleteLeaveRequest(leaveRequests, leaveBalances, id, userId), id)

DeleteCall(id, userId) ==
  deleteLeaveRequest(leaveRequests, leaveBalances, approvalWorkflows, id, userId,
                     UserTable[userId].role)

ApproveDeleteCall(id, approverId) ==
  approveDeleteLeaveRequest(leaveRequests, leaveBalances, id, approverId)

RejectDeleteCall(id, approverId) ==
  rejectDeleteLeaveRequest(leaveRequests, leaveBalances, id, approverId)

\* the transitions of the state diagram that leave row lr
DiagramSuccessors(lr) ==
  CASE lr.status = PENDING -> {PARTIALLY_APPROVED, APPROVED, REJECTED, CANCELLED}
    [] lr.status = PARTIALLY_APPROVED ->
         {PARTIALLY_APPROVED, APPROVED, REJECTED, CANCELLED, PENDING_DELETION}
    [] lr.status = APPROVED -> {CANCELLED, PENDING_DELETION}
    [] lr.status = PENDING_DELETION -> {lr.metadata.originalStatus}
    [] OTHER -> {}

\* after a call that returned r, row id is gone, unchanged in status, or has
\* moved along the diagram
AlongDiagram(r, id) ==
  id \in DOMAIN r.reqs
    => \/ r.reqs[id].status = leaveRequests[id].status
       \/ r.reqs[id].status \in DiagramSuccessors(leaveRequests[id])

\* C21: every status change made by a handler is a transition of the state
\* diagram, and updateLeaveRequestStatus never gives a request the status
\* pending, partially_approved or pending_deletion because that value was
\* the status of the payload.
C21_StatusChangesFollowDiagram ==
  \A id \in DOMAIN leaveRequests :
    /\ \A approverId \in Users, status \in LeaveRequestStatus, isAuthorized \in BOOLEAN :
         LET r == UpdateCall(id, approverId, status, isAuthorized)
         IN /\ AlongDiagram(r, id)
            /\ status \in {PENDING, PARTIALLY_APPROVED, PENDING_DELETION}
                 => r.reqs[id].status = leaveRequests[id].status
    /\ \A userId \in Users :
         /\ AlongDiagram(CancelCall(id, userId), id)
         /\ AlongDiagram(DeleteCall(id, userId), id)
         /\ AlongDiagram(ApproveDeleteCall(id, userId), id)
         /\ AlongDiagram(RejectDeleteCall(id, userId), id)

\* C22: deleteLeaveRequest by the owner, who is not admin or HR, on an
\* approved or partially approved request whose applicable workflow has more
\* than one level answers 200, keeps the row and the ledger, sets the status
\* to pending_deletion and stores the previous status in originalStatus;
\* nothing else of the row changes but deletionRequestedBy.
C22_OwnerDeleteAsksForApproval ==
  \A id \in DOMAIN leaveRequests :
    LET lr == leaveRequests[id]
        userId == lr.userId
        wf == FindWorkflowByDuration(approvalWorkflows, lr.numberOfDays)
        r == DeleteCall(id, userId)
    IN /\ ~IsAdminOrHR(UserTable[userId].role)
       /\ lr.status \in {APPROVED, PARTIALLY_APPROVED}
       /\ wf # <<>>
       /\ Len(wf[1].approvalLevels) > 1
       => /\ r.code = 200
          /\ r.bals = leaveBalances
          /\ DOMAIN r.reqs = DOMAIN leaveRequests
          /\ r.reqs[id].status = PENDING_DELETION
          /\ r.reqs[id].metadata.originalStatus = lr.status
          /\ r.reqs[id] = [lr EXCEPT !.status = PENDING_DELETION,
                                     !.metadata.originalStatus = lr.status,
                                     !.metadata.deletionRequestedBy = userId]
          /\ \A other \in DOMAIN leaveRequests \ {id} : r.reqs[other] = leaveRequests[other]

\* deleteLeaveRequest has just put the owner's request into pending_deletion
C22_Witness ==
  /\ response.op = "deleteLeaveRequest"
  /\ response.code = 200
  /\ response.id \in DOMAIN leaveRequests
  /\ leaveRequests[response.id].status = PENDING_DELETION
  /\ leaveRequests[response.id].metadata.originalStatus \in {APPROVED, PARTIALLY_APPROVED}
  /\ leaveRequests[response.id].metadata.deletionRequestedBy = leaveRequests[response.id].userId

\* after a call that returned r, row id is still stored
RowKept(r, id) == id \in DOMAIN r.reqs

\* C23: a request in pending_deletion is removed only by an
\* approveDeleteLeaveRequest of the requester's manager or of an admin or HR
\* user; no other handler call removes it, in particular not a second
\* deleteLeaveRequest of its owner.
C23_PendingDeletionRemovedOnlyByApproval ==
  \A id \in DOMAIN leaveRequests :
    leaveRequests[id].status = PENDING_DELETION
      => /\ \A userId \in Users :
              /\ RowKept(DeleteCall(id, userId), id)
              /\ RowKept(CancelCall(id, userId), id)
              /\ RowKept(RejectDeleteCall(id, userId), id)
              /\ ~RowKept(ApproveDeleteCall(id, userId), id)
                   => MayDecideDeletion(userId, leaveRequests[id].userId)
         /\ \A approverId \in Users, status \in LeaveRequestStatus, isAuthorized \in BOOLEAN :
              RowKept(UpdateCall(id, approverId, status, isAuthorized), id)

\* C24: approveDeleteLeaveRequest and rejectDeleteLeaveRequest fail, with the
\* request table and the ledger unchanged, when the request is not in
\* pending_deletion (400) or the actor is neither the requester's manager
\* nor an admin or HR user (403).
C24_DeletionDecisionRefused ==
  \A id \in DOMAIN leaveRequests, approverId \in Users :
    LET lr == leaveRequests[id]
        notPending == lr.status # PENDING_DELETION
        notEntitled == /\ UserTable[lr.userId].managerId # approverId
                       /\ UserTable[approverId].role \notin {"super_admin", "hr"}
        Refused(r) == /\ r.code = IF notPending THEN 400 ELSE 403
                      /\ r.reqs = leaveRequests
                      /\ r.bals = leaveBalances
    IN notPending \/ notEntitled
         => /\ Refused(ApproveDeleteCall(id, approverId))
            /\ Refused(RejectDeleteCall(id, approverId))

\* a deletion decision on a request in pending_deletion has just been
\* refused with 403
C24_Witness ==
  /\ response.op \in {"approveDeleteLeaveRequest", "rejectDeleteLeaveRequest"}
  /\ response.code = 403
  /\ response.id \in DOMAIN leaveRequests
  /\ leaveRequests[response.id].status = PENDING_DELETION

\* the tables when call first runs to its end before call second starts, from
\* the tables the two calls found
OneAfterTheOther(first, second) ==
  LET Call(reqs, bals, c) ==
        updateLeaveRequestStatus(reqs, bals, approvalWorkflows, today, inFlight.id,
                                 inFlight.calls[c].approverId, inFlight.calls[c].status, TRUE)
      r1 == Call(inFlight.before.reqs, inFlight.before.bals, first)
      r2 == Call(r1.reqs, r1.bals, second)
  IN [reqs |-> r2.reqs, bals |-> r2.bals]

BothAnswered == inFlight # <<>> /\ \A c \in Calls : inFlight.calls[c].pc = "done"

\* C25: when two approval actions on the same request have run at the same
\* time, the request table and the ledger are those left by the two actions
\* run one after the other in some order (so used grew by numberOfDays at
\* most once and no approval-history entry or status update is missing).
C25_ConcurrentApprovalsSerializable ==
  BothAnswered
    => [reqs |-> leaveRequests, bals |-> leaveBalances]
         \in {OneAfterTheOther("a", "b"), OneAfterTheOther("b", "a")}

\* C27: when the notifier throws while an approval, rejection, cancellation
\* or deletion action is notifying, the action answers as it does with a
\* working notifier (200) and the tables are those the action has written.
C27_NotifierFailureKeepsSuccess ==
  \A id \in DOMAIN leaveRequests :
    LET Same(r, notified) == r.code = 200 => notified = r
    IN /\ \A approverId \in Users, status \in ClientStatuses \cup {CANCELLED} :
            LET r == UpdateCall(id, approverId, status, TRUE)
            IN Same(r, updateLeaveRequestStatusNotifying(r, TRUE))
       /\ \A userId \in Users :
            /\ Same(CancelCall(id, userId),
                    cancelLeaveRequestNotifying(CancelCall(id, userId), userId, TRUE))
            /\ Same(DeleteCall(id, userId),
                    deleteLeaveRequestNotifying(DeleteCall(id, userId), userId, TRUE))
            /\ Same(ApproveDeleteCall(id, userId),
                    approveDeleteLeaveRequestNotifying(ApproveDeleteCall(id, userId), TRUE))
            /\ Same(RejectDeleteCall(id, userId),
                    rejectDeleteLeaveRequestNotifying(RejectDeleteCall(id, userId), TRUE))

\* C26: when the ledger record a final approval would update is missing, the
\* approval fails and the stored status of the request does not become
\* approved.
C26_NoLedgerNoApproval ==
  \A id \in DOMAIN leaveRequests, approverId \in Users :
    /\ Awaiting(id)
    /\ AtFinalLevel(id, approverId)
    /\ BalanceKey(leaveRequests[id], getCurrentYear(today)) \notin DOMAIN leaveBalances
    => LET r == UpdateCall(id, approverId, APPROVED, TRUE)
       IN r.code # 200 /\ r.reqs[id].status # APPROVED

\* the ids of a list of user rows
IdsOf(approvers) == {approvers[i].id : i \in 1..Len(approvers)}

NoIdTwice(approvers) ==
  \A i \in 1..Len(approvers), j \in 1..Len(approvers) :
    approvers[i].id = approvers[j].id => i = j

\* C28 as stated: the list getApproversForWorkflowLevel has returned holds
\* exactly the active users whose roleId is in level.roleIds, only those of
\* the department given whenever level.departmentSpecific is true, without
\* the requester and with no id twice (the empty list when nobody qualifies).
C28_ApproversAlwaysOfDepartment ==
  response.op = "getApproversForWorkflowLevel"
    => /\ NoIdTwice(response.id)
       /\ IdsOf(response.id) =
            {u \in Users : /\ inFlight.users[u].isActive
                           /\ inFlight.users[u].roleId \in inFlight.level.roleIds
                           /\ inFlight.level.departmentSpecific
                                => <<inFlight.users[u].departmentId>> = inFlight.departmentId
                           /\ <<u>> # inFlight.requesterId}

\* C28, amended: the same, the restriction to the department applying when
\* level.departmentSpecific is true and a departmentId is given; a
\* department-specific level asked without a departmentId gets the approvers
\* of every department.
C28_ApproversOfLevel ==
  response.op = "getApproversForWorkflowLevel"
    => /\ NoIdTwice(response.id)
       /\ IdsOf(response.id) =
            {u \in Users : /\ inFlight.users[u].isActive
                           /\ inFlight.users[u].roleId \in inFlight.level.roleIds
                           /\ inFlight.level.departmentSpecific /\ inFlight.departmentId # <<>>
                                => <<inFlight.users[u].departmentId>> = inFlight.departmentId
                           /\ <<u>> # inFlight.requesterId}

\* the service has just answered for a department-specific level, a
\* department and a requester who holds a role of the level: a colleague of
\* the department is returned, the requester and the deactivated holder of
\* the role are not
C28_Witness ==
  /\ response.op = "getApproversForWorkflowLevel"
  /\ inFlight.level.departmentSpecific
  /\ inFlight.level.roleIds = {"team_lead", "manager", "hr"}
  /\ inFlight.departmentId = <<"d2">>
  /\ inFlight.requesterId = <<"mgr">>
  /\ ~inFlight.users["tl"].isActive
  /\ IdsOf(response.id) = {"hr"}

\* the levels of the workflow recorded in the request (metadata.workflowId)
\* that approverId's role belongs to
LevelsHeld(id, approverId) ==
  LET workflowId == leaveRequests[id].metadata.workflowId
      levels == IF workflowId \in DOMAIN approvalWorkflows
                THEN approvalWorkflows[workflowId].approvalLevels ELSE <<>>
  IN {levels[i].level : i \in {j \in 1..Len(levels) : MatchesLevel(levels[j], approverId)}}

\* C29: on a partially approved request an approval succeeds only if the
\* actor's role belongs to level currentApprovalLevel + 1; an actor whose
\* role belongs to other levels only is refused with 403 and nothing
\* changes; a successful approval that is not final raises
\* currentApprovalLevel to that level.
C29_OnlyNextLevelApproves ==
  \A id \in DOMAIN leaveRequests, approverId \in Users, isAuthorized \in BOOLEAN :
    leaveRequests[id].status = PARTIALLY_APPROVED
      => LET r == UpdateCall(id, approverId, APPROVED, isAuthorized)
             nextLevel == leaveRequests[id].metadata.currentApprovalLevel + 1
         IN /\ r.code = 200 => nextLevel \in LevelsHeld(id, approverId)
            /\ LevelsHeld(id, approverId) # {} /\ nextLevel \notin LevelsHeld(id, approverId)
                 => r.code = 403 /\ r.reqs = leaveRequests /\ r.bals = leaveBalances
            /\ r.code = 200 /\ r.reqs[id].status = PARTIALLY_APPROVED
                 => r.reqs[id].metadata.currentApprovalLevel = nextLevel

\* the level numbers of the workflow recorded in the request
RecordedLevels(id) ==
  LET workflowId == leaveRequests[id].metadata.workflowId
  IN IF workflowId \in DOMAIN approvalWorkflows
     THEN Range(LevelNumbers(approvalWorkflows[workflowId].approvalLevels)) ELSE {}

\* those that lie above the request's currentApprovalLevel
HigherLevels(id) ==
  {n \in RecordedLevels(id) : n > leaveRequests[id].metadata.currentApprovalLevel}

\* C30: a request that was partially approved at a level of its workflow and
\* has a higher level left can be advanced: an approval by some actor who
\* holds a role of the next higher level succeeds, also when the level
\* numbers of the workflow are not contiguous.
C30_NextHigherLevelCanApprove ==
  \A id \in DOMAIN leaveRequests :
    LET lr == leaveRequests[id]
    IN /\ lr.status = PARTIALLY_APPROVED
       /\ lr.metadata.approvalHistory # <<>>
       /\ lr.metadata.currentApprovalLevel \in RecordedLevels(id)
       /\ HigherLevels(id) # {}
       => \E approverId \in Users :
            /\ \A n \in HigherLevels(id) :
                 (\A m \in HigherLevels(id) : n <= m) => n \in LevelsHeld(id, approverId)
            /\ UpdateCall(id, approverId, APPROVED, TRUE).code = 200

NoLevelTwice(approvalHistory) ==
  \A i \in 1..Len(approvalHistory), j \in 1..Len(approvalHistory) :
    approvalHistory[i].level = approvalHistory[j].level => i = j

\* C31: an approval action that succeeds, partial or final, appends exactly
\* one entry to metadata.approvalHistory, and no level appears twice in the
\* history it leaves.
C31_OneHistoryEntryPerApproval ==
  \A id \in DOMAIN leaveRequests, approverId \in Users :
    Awaiting(id)
      => LET r == UpdateCall(id, approverId, APPROVED, TRUE)
             before == leaveRequests[id].metadata.approvalHistory
         IN r.code = 200
              => /\ Len(r.reqs[id].metadata.approvalHistory) = Len(before) + 1
                 /\ NoLevelTwice(before) => NoLevelTwice(r.reqs[id].metadata.approvalHistory)

\* the call that returned r has cancelled the approved request id: used of
\* the current year's record went down by numberOfDays, and the actor is the
\* owner
CancelledByOwnerWithRefund(r, id, actor) ==
  LET lr == leaveRequests[id]
      key == BalanceKey(lr, getCurrentYear(today))
  IN (id \in DOMAIN r.reqs /\ r.reqs[id].status = CANCELLED)
       => /\ actor = lr.userId
          /\ key \in DOMAIN leaveBalances
               => r.bals[key].used = leaveBalances[key].used - lr.numberOfDays

\* C32: whichever operation moves a request from approved to cancelled,
\* cancelLeaveRequest or updateLeaveRequestStatus with status cancelled, used
\* is decremented by numberOfDays, and only the owner can make it happen.
C32_CancelOfApprovedRefundsOwnerOnly ==
  \A id \in DOMAIN leaveRequests :
    leaveRequests[id].status = APPROVED
      => \A actor \in Users :
           /\ CancelledByOwnerWithRefund(CancelCall(id, actor), id, actor)
           /\ \A isAuthorized \in BOOLEAN :
                CancelledByOwnerWithRefund(UpdateCall(id, actor, CANCELLED, isAuthorized),
                                           id, actor)

(***************************************************************************)
(* SpecRetired: one request is created and approved while workflows of the *)
(* catalog are deleted or deactivated through the workflow service.        *)
(***************************************************************************)
CreateUnderCatalog == CreateLeaveRequestIn(OneRow)
ApproveUnderCatalog == UpdateLeaveRequestStatusIn(OneRow, {APPROVED})

DeleteWorkflow ==
  \E workflowId \in DOMAIN InitWorkflows :
    RespondService(deleteApprovalWorkflow(approvalWorkflows, workflowId),
                   "deleteApprovalWorkflow")

DeactivateWorkflow ==
  \E workflowId \in DOMAIN InitWorkflows :
    RespondService(updateApprovalWorkflow(approvalWorkflows, workflowId,
                      [name |-> <<>>, minDays |-> <<>>, maxDays |-> <<>>,
                       isActive |-> <<FALSE>>]),
                   "updateApprovalWorkflow")

NextRetired ==
  \/ CreateUnderCatalog
  \/ ApproveUnderCatalog
  \/ DeleteWorkflow
  \/ DeactivateWorkflow

SpecRetired == Init /\ [][NextRetired]_vars

\* the workflow recorded in metadata.workflowId is no longer in the catalog,
\* or no longer active
WorkflowRetired(id) ==
  LET workflowId == leaveRequests[id].metadata.workflowId
  IN \/ workflowId \notin DOMAIN approvalWorkflows
     \/ ~approvalWorkflows[workflowId].isActive

\* approverId's role belongs to the highest of the levels recorded in the
\* request at creation (the catalog the requests are created under is
\* InitWorkflows, whose level definitions no service call of SpecRetired changes)
InHighestRecordedLevel(id, approverId) ==
  LET md == leaveRequests[id].metadata
      levels == InitWorkflows[md.workflowId].approvalLevels
      recorded == {levels[i].level : i \in 1..Len(levels)}
      top == CHOOSE n \in recorded : \A m \in recorded : m <= n
  IN \E i \in 1..Len(levels) : levels[i].level = top /\ MatchesLevel(levels[i], approverId)

\* C33: when the workflow a request was created under has been deleted or
\* deactivated while the request awaits a decision, an actor whose role is
\* not in the highest level recorded for it cannot make it approved, and the
\* missing workflow is answered with an error, not with a direct approval.
C33_RetiredWorkflowNeverApprovesDirectly ==
  \A id \in DOMAIN leaveRequests, approverId \in Users, isAuthorized \in BOOLEAN :
    (Awaiting(id) /\ WorkflowRetired(id))
      => LET r == UpdateCall(id, approverId, APPROVED, isAuthorized)
         IN /\ ~InHighestRecordedLevel(id, approverId) => r.reqs[id].status # APPROVED
            /\ r.code # 200

\* C34: with the operations executed one at a time, no user ever has two
\* approved requests that share a calendar day.
C34_NoTwoApprovedShareADay ==
  \A a \in DOMAIN leaveRequests, b \in DOMAIN leaveRequests :
    (/\ a # b
     /\ leaveRequests[a].userId = leaveRequests[b].userId
     /\ leaveRequests[a].status = APPROVED
     /\ leaveRequests[b].status = APPROVED)
      => ~DatesOverlap(leaveRequests[a], leaveRequests[b].startDate, leaveRequests[b].endDate)

\* the requests whose days the ledger counts: approved, or waiting for a
\* deletion decision after having been approved
CountedRequests(key) ==
  {i \in DOMAIN leaveRequests :
     /\ BalanceKey(leaveRequests[i], getCurrentYear(leaveRequests[i].startDate)) = key
     /\ \/ leaveRequests[i].status = APPROVED
        \/ /\ leaveRequests[i].status = PENDING_DELETION
           /\ leaveRequests[i].metadata.originalStatus = APPROVED}

RECURSIVE SumOfDays(_)
SumOfDays(ids) ==
  IF ids = {} THEN 0
  ELSE LET i == CHOOSE j \in ids : TRUE
       IN leaveRequests[i].numberOfDays + SumOfDays(ids \ {i})

\* C35: with the operations executed one at a time, used of every ledger
\* record equals the sum of numberOfDays over the user's requests of that
\* leave type and year that are approved, or pending deletion after having
\* been approved.
C35_UsedIsSumOfApprovedDays ==
  \A key \in DOMAIN leaveBalances :
    leaveBalances[key].used = SumOfDays(CountedRequests(key))

(***************************************************************************)
(* SpecAllowance: two requests of one requester are created and approved   *)
(* against an allowance of which one half day is left.                     *)
(***************************************************************************)
\* the catalog with a half-day workflow of two consecutive levels
TwoStepWorkflows ==
  [InitWorkflows EXCEPT !.w0.approvalLevels = <<Level(1, {"team_lead"}), Level(2, {"hr"})>>]

InitAllowance ==
  /\ leaveRequests = [i \in {} |-> 0]
  /\ leaveBalances = BalancesOf(1)
  /\ approvalWorkflows = TwoStepWorkflows
  /\ today = 1
  /\ allocated = {}
  /\ response = NoResponse
  /\ inFlight = <<>>

CreateOnLastHalfDay == CreateLeaveRequestIn(RequestIds)
ApproveOnLastHalfDay == UpdateLeaveRequestStatusIn(RequestIds, ClientStatuses)

NextAllowance ==
  \/ CreateOnLastHalfDay
  \/ ApproveOnLastHalfDay

SpecAllowance == InitAllowance /\ [][NextAllowance]_vars

\* C36: in every reachable state used <= balance + carryForward for every
\* ledger record; the balance check of createLeaveRequest keeps approvals
\* from over-drawing the entitlement, also when earlier requests of the
\* leave type are partially approved.
C36_UsedWithinEntitlement ==
  \A key \in DOMAIN leaveBalances :
    leaveBalances[key].used <= leaveBalances[key].balance + leaveBalances[key].carryForward

(***************************************************************************)
(* SpecTwins: one request is created and approved under a catalog in which *)
(* two workflows number their levels alike and staff them differently.     *)
(***************************************************************************)
TwinWorkflows ==
  [InitWorkflows EXCEPT
     !.w0.approvalLevels = <<Level(1, {"team_lead"}), Level(2, {"hr"}), Level(3, {"manager"})>>]

InitTwins ==
  /\ leaveRequests = [i \in {} |-> 0]
  /\ leaveBalances = InitBalances
  /\ approvalWorkflows = TwinWorkflows
  /\ today = 1
  /\ allocated = {}
  /\ response = NoResponse
  /\ inFlight = <<>>

CreateUnderTwins == CreateLeaveRequestIn(OneRow)
ApproveUnderTwins == UpdateLeaveRequestStatusIn(OneRow, ClientStatuses)

NextTwins ==
  \/ CreateUnderTwins
  \/ ApproveUnderTwins

SpecTwins == InitTwins /\ [][NextTwins]_vars

\* the workflow recorded in metadata.workflowId, as the catalog holds it
RecordedWorkflow(id) ==
  LET workflowId == leaveRequests[id].metadata.workflowId
  IN IF workflowId \in DOMAIN approvalWorkflows
     THEN [i \in {workflowId} |-> approvalWorkflows[i]]
     ELSE [i \in {} |-> 0]

\* C37: an approval evaluates the actor against the levels of the workflow
\* recorded in metadata.workflowId: the workflow resolved again at approval
\* time is that workflow, and the call ends as it would with that workflow
\* alone in the catalog.
C37_ApprovalUsesRecordedWorkflow ==
  \A id \in DOMAIN leaveRequests, approverId \in Users, isAuthorized \in BOOLEAN :
    Awaiting(id)
      => /\ ApplicableWorkflow(approvalWorkflows, leaveRequests[id])
              = ApplicableWorkflow(RecordedWorkflow(id), leaveRequests[id])
         /\ UpdateCall(id, approverId, APPROVED, isAuthorized)
              = updateLeaveRequestStatus(leaveRequests, leaveBalances, RecordedWorkflow(id),
                                         today, id, approverId, APPROVED, isAuthorized)

\* the ledger records whose used is higher in after than in before
RecordsRaised(before, after) ==
  {k \in DOMAIN before : after[k].used > before[k].used}

\* the tables after request id, approved by approverId, has been deleted by
\* deleter, with the deletion approved by decider where it has to be
ApprovedThenDeleted(id, approverId, deleter, decider) ==
  LET approved == UpdateCall(id, approverId, APPROVED, TRUE)
      asked == deleteLeaveRequest(approved.reqs, approved.bals, approvalWorkflows, id,
                                  deleter, UserTable[deleter].role)
      decided == approveDeleteLeaveRequest(asked.reqs, asked.bals, id, decider)
  IN [approved |-> approved,
      deleted |-> IF id \in DOMAIN asked.reqs THEN decided ELSE asked]

\* C38: when an approved request is deleted, directly or through an approved
\* deletion, the ledger record whose used goes down is the record whose used
\* went up when the request was approved, whatever the year of its start date.
C38_DeletionRevertsTheApprovalRecord ==
  \A id \in DOMAIN leaveRequests, approverId \in Users, deleter \in Users, decider \in Users :
    AtFinalLevel(id, approverId)
      => LET st == ApprovedThenDeleted(id, approverId, deleter, decider)
         IN (/\ st.approved.code = 200
             /\ id \notin DOMAIN st.deleted.reqs)
              => RecordsRaised(st.deleted.bals, st.approved.bals)
                   = RecordsRaised(leaveBalances, st.approved.bals)

(***************************************************************************)
(* SpecRace: a final approval (updateLeaveRequestStatus) and the owner's   *)
(* cancelLeaveRequest run at the same time on one pending request.         *)
(* Neither handler opens a transaction: the approval reads the row, saves  *)
(* it, reads the ledger record and saves it; the cancellation reads the    *)
(* row, for an approved row reads and saves the ledger record, and saves   *)
(* the row.  The calls interleave between these repository calls.          *)
(***************************************************************************)
\* a call of the race that has not read anything yet
RacingCall(actor) == [pc |-> "start", actor |-> actor, lr |-> <<>>, used |-> 0, code |-> 0]

RaceKey(lr) == BalanceKey(lr, getCurrentYear(today))

\* what the approval computes from the row it has read
ApprovalComputed ==
  updateLeaveRequestStatus([leaveRequests EXCEPT ![inFlight.id] = inFlight.approval.lr],
                           leaveBalances, approvalWorkflows, today, inFlight.id,
                           inFlight.approval.actor, APPROVED, TRUE)

\* what the cancellation computes from the row it has read
CancellationComputed ==
  cancelLeaveRequest([leaveRequests EXCEPT ![inFlight.id] = inFlight.cancellation.lr],
                     leaveBalances, today, inFlight.id, inFlight.cancellation.actor)

\* the cancellation goes through "Update leave balance"
CancellationReachesLedger ==
  /\ CancellationComputed.code = 200
  /\ inFlight.cancellation.lr.status = APPROVED
  /\ RaceKey(inFlight.cancellation.lr) \in DOMAIN leaveBalances

CreateForRace ==
  /\ inFlight = <<>>
  /\ CreateLeaveRequestIn(OneRow)

\* an approver of the final level and the owner send their calls
BeginRace ==
  /\ inFlight = <<>>
  /\ \E id \in DOMAIN leaveRequests, approverId \in Users :
       /\ leaveRequests[id].status = PENDING
       /\ AtFinalLevel(id, approverId)
       /\ inFlight' = [id |-> id,
                       before |-> [reqs |-> leaveRequests, bals |-> leaveBalances],
                       approval |-> RacingCall(approverId),
                       cancellation |-> RacingCall(leaveRequests[id].userId)]
  /\ response' = NoResponse
  /\ UNCHANGED <<leaveRequests, leaveBalances, approvalWorkflows, today, allocated>>

\* updateLeaveRequestStatus: leaveRequestRepository.findOne
ApprovalReadsRequest ==
  /\ inFlight # <<>>
  /\ inFlight.approval.pc = "start"
  /\ inFlight' = [inFlight EXCEPT !.approval.pc = "read",
                                  !.approval.lr = leaveRequests[inFlight.id]]
  /\ UNCHANGED <<leaveRequests, leaveBalances, approvalWorkflows, today, allocated, response>>

\* updateLeaveRequestStatus: the checks and leaveRequestRepository.save; a
\* refused call ends here without saving, and so does an approval that
\* finds no ledger record
ApprovalSavesRequest ==
  /\ inFlight # <<>>
  /\ inFlight.approval.pc = "read"
  /\ LET r == ApprovalComputed
         row == r.reqs[inFlight.id]
         goesOn == /\ r.code = 200
                   /\ row.status = APPROVED
                   /\ RaceKey(row) \in DOMAIN leaveBalances
     IN /\ leaveRequests' = IF row = inFlight.approval.lr THEN leaveRequests
                            ELSE [leaveRequests EXCEPT ![inFlight.id] = row]
        /\ inFlight' = IF goesOn
                       THEN [inFlight EXCEPT !.approval.pc = "saved"]
                       ELSE [inFlight EXCEPT !.approval.pc = "done", !.approval.code = r.code]
        /\ response' = IF goesOn THEN response
                       ELSE Response("updateLeaveRequestStatus", r.code, inFlight.id)
  /\ UNCHANGED <<leaveBalances, approvalWorkflows, today, allocated>>

\* updateLeaveRequestStatus: leaveBalanceRepository.findOne
ApprovalReadsBalance ==
  /\ inFlight # <<>>
  /\ inFlight.approval.pc = "saved"
  /\ inFlight' = [inFlight EXCEPT !.approval.pc = "balanceRead",
                                  !.approval.used = leaveBalances[RaceKey(inFlight.approval.lr)].used]
  /\ UNCHANGED <<leaveRequests, leaveBalances, approvalWorkflows, today, allocated, response>>

\* updateLeaveRequestStatus: leaveBalance.used = currentUsed + daysToAdd; save
ApprovalSavesBalance ==
  /\ inFlight # <<>>
  /\ inFlight.approval.pc = "balanceRead"
  /\ leaveBalances' = [leaveBalances EXCEPT ![RaceKey(inFlight.approval.lr)].used =
                         inFlight.approval.used + inFlight.approval.lr.numberOfDays]
  /\ inFlight' = [inFlight EXCEPT !.approval.pc = "done", !.approval.code = 200]
  /\ response' = Response("updateLeaveRequestStatus", 200, inFlight.id)
  /\ UNCHANGED <<leaveRequests, approvalWorkflows, today, allocated>>

\* cancelLeaveRequest: leaveRequestRepository.findOne
CancellationReadsRequest ==
  /\ inFlight # <<>>
  /\ inFlight.cancellation.pc = "start"
  /\ inFlight' = [inFlight EXCEPT !.cancellation.pc = "read",
                                  !.cancellation.lr = leaveRequests[inFlight.id]]
  /\ UNCHANGED <<leaveRequests, leaveBalances, approvalWorkflows, today, allocated, response>>

\* cancelLeaveRequest on an approved row: leaveBalanceRepository.findOne
CancellationReadsBalance ==
  /\ inFlight # <<>>
  /\ inFlight.cancellation.pc = "read"
  /\ CancellationReachesLedger
  /\ inFlight' = [inFlight EXCEPT !.cancellation.pc = "balanceRead",
                                  !.cancellation.used =
                                     leaveBalances[RaceKey(inFlight.cancellation.lr)].used]
  /\ UNCHANGED <<leaveRequests, leaveBalances, approvalWorkflows, today, allocated, response>>

\* cancelLeaveRequest: leaveBalance.used -= numberOfDays; save
CancellationSavesBalance ==
  /\ inFlight # <<>>
  /\ inFlight.cancellation.pc = "balanceRead"
  /\ leaveBalances' = [leaveBalances EXCEPT ![RaceKey(inFlight.cancellation.lr)].used =
                         inFlight.cancellation.used - inFlight.cancellation.lr.numberOfDays]
  /\ inFlight' = [inFlight EXCEPT !.cancellation.pc = "balanceSaved"]
  /\ UNCHANGED <<leaveRequests, approvalWorkflows, today, allocated, response>>

\* cancelLeaveRequest: the checks, status = cancelled and
\* leaveRequestRepository.save; a refused call ends without saving
CancellationSavesRequest ==
  /\ inFlight # <<>>
  /\ \/ inFlight.cancellation.pc = "read" /\ ~CancellationReachesLedger
     \/ inFlight.cancellation.pc = "balanceSaved"
  /\ LET code == IF inFlight.cancellation.pc = "balanceSaved" THEN 200
                 ELSE CancellationComputed.code
     IN /\ leaveRequests' =
             IF code = 200
             THEN [leaveRequests EXCEPT
                     ![inFlight.id] = [inFlight.cancellation.lr EXCEPT !.status = CANCELLED]]
             ELSE leaveRequests
        /\ inFlight' = [inFlight EXCEPT !.cancellation.pc = "done", !.cancellation.code = code]
        /\ response' = Response("cancelLeaveRequest", code, inFlight.id)
  /\ UNCHANGED <<leaveBalances, approvalWorkflows, today, allocated>>

\* both calls have answered
EndRace ==
  /\ inFlight # <<>>
  /\ inFlight.approval.pc = "done"
  /\ inFlight.cancellation.pc = "done"
  /\ inFlight' = <<>>
  /\ UNCHANGED <<leaveRequests, leaveBalances, approvalWorkflows, today, allocated, response>>

NextRace ==
  \/ CreateForRace
  \/ BeginRace
  \/ ApprovalReadsRequest
  \/ ApprovalSavesRequest
  \/ ApprovalReadsBalance
  \/ ApprovalSavesBalance
  \/ CancellationReadsRequest
  \/ CancellationReadsBalance
  \/ CancellationSavesBalance
  \/ CancellationSavesRequest
  \/ EndRace

SpecRace == Init /\ [][NextRace]_vars

\* both calls of the race have answered
RaceOver ==
  /\ inFlight # <<>>
  /\ inFlight.approval.pc = "done"
  /\ inFlight.cancellation.pc = "done"

\* C39: when a final approval and the owner's cancelLeaveRequest run at the
\* same time on a pending request, the state they leave is consistent: the
\* request is approved and used includes its numberOfDays, or it is
\* cancelled and used does not include them.
C39_ApprovalAndCancellationConsistent ==
  RaceOver
    => LET lr == leaveRequests[inFlight.id]
           key == RaceKey(lr)
           usedBefore == inFlight.before.bals[key].used
       IN \/ /\ lr.status = APPROVED
             /\ leaveBalances[key].used = usedBefore + lr.numberOfDays
          \/ /\ lr.status = CANCELLED
             /\ leaveBalances[key].used = usedBefore

====
